---- MODULE Spec2Model ----
(***************************************************************************)
(* Model of the aphrodite chart pipeline: request validation, the          *)
(* settings-override merge, the cache fingerprint, layer resolution, the   *)
(* ephemeris adapter, and the two render route handlers with the LRU       *)
(* result cache of ChartService.                                           *)
(*                                                                         *)
(* Conventions.  Option<T> is a sequence of length 0 (None) or 1 (Some).   *)
(* A HashMap<String, V> is a function whose DOMAIN is the key set; the     *)
(* order in which one map instance is iterated is not fixed by its         *)
(* content, so a request instance carries the two iteration orders of its  *)
(* maps (layer_order, override_order).  f64 values are integers (degrees). *)
(* Result<T, E> is [ok |-> TRUE, val |-> v] or [ok |-> FALSE, err |-> e].  *)
(***************************************************************************)
EXTENDS Integers, Sequences, FiniteSets, TLC

VARIABLES
    cache,                \* ChartService.cache: LRU entries, most recent first
    default_wheel_json,   \* ChartService.default_wheel_json (fixed at construction)
    ephe,                 \* what the installed ephemeris files can compute
    last,                 \* observation of the last handled call
    pool                  \* the service pool and the requests in flight on it

vars == <<cache, default_wheel_json, ephe, last, pool>>

\* ---------------------------------------------------------------- options
None == <<>>
Some(x) == <<x>>
IsSome(o) == Len(o) = 1
Get(o) == o[1]

Ok(v) == [ok |-> TRUE, val |-> v]
Err(kind, layer, what) ==
    [ok |-> FALSE, err |-> [kind |-> kind, layer |-> layer, what |-> what]]

\* The error_code of ApiError.
error_code(kind) ==
    CASE kind = "Validation" -> "VALIDATION_ERROR"
      [] kind = "Calculation" -> "CALCULATION_ERROR"
      [] kind = "NotFound" -> "NOT_FOUND"
      [] kind = "RateLimit" -> "RATE_LIMIT_EXCEEDED"
      [] OTHER -> "INTERNAL_ERROR"

\* ------------------------------------------------------------ JSON values
JStr(s) == [t |-> "str", s |-> s]
JNum(n) == [t |-> "num", n |-> n]
JBool(b) == [t |-> "bool", b |-> b]
JNull == [t |-> "null"]
JObj(m) == [t |-> "obj", o |-> m]
JArr(a) == [t |-> "arr", a |-> a]

as_str(v) == IF v.t = "str" THEN Some(v.s) ELSE None
as_f64(v) == IF v.t = "num" THEN Some(v.n) ELSE None
as_bool(v) == IF v.t = "bool" THEN Some(v.b) ELSE None
is_null(v) == v.t = "null"
as_object(v) == IF v.t = "obj" THEN Some(v.o) ELSE None
as_array(v) == IF v.t = "arr" THEN Some(v.a) ELSE None

EmptyMap == [k \in {} |-> 0]
Map1(k, v) == [x \in {k} |-> v]
Map2(k1, v1, k2, v2) == [x \in {k1, k2} |-> IF x = k1 THEN v1 ELSE v2]

\* All iteration orders of a key set.
Orders(S) ==
    {q \in [1..Cardinality(S) -> S] : \A i, j \in 1..Cardinality(S) : q[i] = q[j] => i = j}

Range(q) == {q[i] : i \in 1..Len(q)}

\* The elements of q that satisfy keep, in order (Iterator::filter).
RECURSIVE FilterMapStr(_)
FilterMapStr(a) ==
    IF a = <<>> THEN <<>>
    ELSE (IF a[1].t = "str" THEN <<a[1].s>> ELSE <<>>) \o FilterMapStr(Tail(a))

\* ------------------------------------------------------- validation tables
VALID_HOUSE_SYSTEMS ==
    {"placidus", "whole_sign", "koch", "equal", "regiomontanus", "campanus",
     "alcabitius", "morinus"}

VALID_AYANAMSAS ==
    {"lahiri", "chitrapaksha", "fagan_bradley", "de_luce", "raman", "krishnamurti",
     "yukteshwar", "djwhal_khul", "true_citra", "true_revati", "aryabhata",
     "aryabhata_mean_sun"}

VALID_PLANETS ==
    {"sun", "moon", "mercury", "venus", "mars", "jupiter", "saturn", "uranus",
     "neptune", "pluto", "chiron", "north_node", "south_node"}

VALID_LAYER_KINDS == {"natal", "transit", "progressed"}

MIN_YEAR == -1000
MAX_YEAR == 3000
MIN_ORB == 0
MAX_ORB == 30

\* ------------------------------------------------------- datetime parsing
\* chrono's RFC 3339 parser on the timestamp texts the model uses: the texts
\* that parse, each with the year of the instant it denotes.  Every other
\* text fails to parse.
DatetimeYear ==
    [s \in {"1990-01-01T12:00:00Z", "2024-06-01T00:00:00Z", "3500-01-01T00:00:00Z"} |->
        CASE s = "1990-01-01T12:00:00Z" -> 1990
          [] s = "2024-06-01T00:00:00Z" -> 2024
          [] s = "3500-01-01T00:00:00Z" -> 3500]

Parses(s) == s \in DOMAIN DatetimeYear

\* An instant is the record of what the model keeps of a DateTime<Utc>.
Instant(s) == [year |-> DatetimeYear[s]]

\* parse_datetime of services/chart.rs (the timezone argument is unused).
parse_datetime(dt_str) ==
    IF Parses(dt_str) THEN Ok(Instant(dt_str))
    ELSE Err("Validation", None, "Failed to parse datetime")

\* RequestValidator::parse_and_validate_datetime
parse_and_validate_datetime(dt_str) ==
    IF Parses(dt_str) THEN Ok(Instant(dt_str))
    ELSE Err("Validation", None, "Failed to parse datetime")

\* RequestValidator::validate_date_range
validate_date_range(dt) == dt.year >= MIN_YEAR /\ dt.year <= MAX_YEAR

\* RequestValidator::validate_location
validate_location(loc) ==
    /\ loc.lat >= -90 /\ loc.lat <= 90
    /\ loc.lon >= -180 /\ loc.lon <= 180

\* RequestValidator::validate_orb_setting
validate_orb_setting(value) == ~(value < MIN_ORB \/ value > MAX_ORB)

\* The first error of a sequence of results, in order; Ok when there is none
\* (a loop that returns on the first failing `?`).
RECURSIVE FirstError(_)
FirstError(rs) ==
    IF rs = <<>> THEN Ok(TRUE)
    ELSE IF ~rs[1].ok THEN rs[1] ELSE FirstError(Tail(rs))

\* One iteration of the loop of RequestValidator::validate_subjects.
validate_subject_at(subjects, idx) ==
    LET subject == subjects[idx] IN
    IF subject.id = "" THEN Err("Validation", None, "Subject.id cannot be empty")
    ELSE IF \E j \in 1..(idx - 1) : subjects[j].id = subject.id
    THEN Err("Validation", None, "Duplicate subject ID")
    ELSE IF IsSome(subject.birth_date_time)
            /\ ~parse_and_validate_datetime(Get(subject.birth_date_time)).ok
    THEN Err("Validation", None, "Subject.birthDateTime")
    ELSE IF IsSome(subject.birth_date_time)
            /\ ~validate_date_range(
                    parse_and_validate_datetime(Get(subject.birth_date_time)).val)
    THEN Err("Validation", None, "Date year is outside valid range")
    ELSE IF IsSome(subject.location) /\ ~validate_location(Get(subject.location))
    THEN Err("Validation", None, "Subject.location")
    ELSE Ok(TRUE)

\* RequestValidator::validate_subjects
validate_subjects(subjects) ==
    IF subjects = <<>> THEN Err("Validation", None, "At least one subject is required")
    ELSE FirstError([idx \in 1..Len(subjects) |-> validate_subject_at(subjects, idx)])

\* RequestValidator::validate_settings
validate_settings(settings) ==
    IF settings.zodiac_type # "tropical" /\ settings.zodiac_type # "sidereal"
    THEN Err("Validation", None, "Invalid zodiacType")
    ELSE IF settings.house_system \notin VALID_HOUSE_SYSTEMS
    THEN Err("Validation", None, "Invalid houseSystem")
    ELSE IF IsSome(settings.ayanamsa) /\ Get(settings.ayanamsa) \notin VALID_AYANAMSAS
    THEN Err("Validation", None, "Invalid ayanamsa")
    ELSE IF ~validate_orb_setting(settings.orb_settings.conjunction)
    THEN Err("Validation", None, "orbSettings.conjunction")
    ELSE IF ~validate_orb_setting(settings.orb_settings.opposition)
    THEN Err("Validation", None, "orbSettings.opposition")
    ELSE IF ~validate_orb_setting(settings.orb_settings.trine)
    THEN Err("Validation", None, "orbSettings.trine")
    ELSE IF ~validate_orb_setting(settings.orb_settings.square)
    THEN Err("Validation", None, "orbSettings.square")
    ELSE IF ~validate_orb_setting(settings.orb_settings.sextile)
    THEN Err("Validation", None, "orbSettings.sextile")
    ELSE IF \E i \in 1..Len(settings.include_objects) :
                settings.include_objects[i] \notin VALID_PLANETS
    THEN Err("Validation", None, "Invalid includeObjects")
    ELSE Ok(TRUE)

\* One iteration of the loop of RequestValidator::validate_layer_config.
validate_layer(layer_id, config, subjects) ==
    IF config.kind \notin VALID_LAYER_KINDS
    THEN Err("Validation", Some(layer_id), "Invalid kind")
    ELSE IF config.kind = "natal" /\ ~IsSome(config.subject_id)
    THEN Err("Validation", Some(layer_id), "natal layer must specify a subjectId")
    ELSE IF config.kind = "natal"
            /\ ~\E i \in 1..Len(subjects) : subjects[i].id = Get(config.subject_id)
    THEN Err("Validation", Some(layer_id), "subjectId not found in subjects")
    ELSE IF config.kind = "transit" /\ ~IsSome(config.explicit_date_time)
    THEN Err("Validation", Some(layer_id), "transit layer must specify explicitDateTime")
    ELSE IF config.kind = "transit"
            /\ ~parse_and_validate_datetime(Get(config.explicit_date_time)).ok
    THEN Err("Validation", Some(layer_id), "explicitDateTime")
    ELSE IF config.kind = "transit"
            /\ ~validate_date_range(
                    parse_and_validate_datetime(Get(config.explicit_date_time)).val)
    THEN Err("Validation", None, "Date year is outside valid range")
    ELSE IF config.kind = "progressed" /\ ~IsSome(config.explicit_date_time)
    THEN Err("Validation", Some(layer_id),
             "progressed layer must specify explicitDateTime")
    ELSE IF IsSome(config.location) /\ ~validate_location(Get(config.location))
    THEN Err("Validation", Some(layer_id), "location")
    ELSE Ok(TRUE)

\* RequestValidator::validate_layer_config; order is the iteration order of
\* the layer_config map.
validate_layer_config(layer_config, order, subjects) ==
    IF DOMAIN layer_config = {}
    THEN Err("Validation", None, "At least one layer must be configured")
    ELSE FirstError([i \in 1..Len(order) |->
                        validate_layer(order[i], layer_config[order[i]], subjects)])

\* RequestValidator::validate_request
validate_request(request) ==
    FirstError(<<validate_subjects(request.subjects),
                 validate_settings(request.settings),
                 validate_layer_config(request.layer_config, request.layer_order,
                                       request.subjects)>>)

\* ------------------------------------------------ settings-override merge
MapPut(m, k, v) == [x \in (DOMAIN m) \cup {k} |-> IF x = k THEN v ELSE m[x]]

\* serde's defaults of VedicConfig (schemas/request.rs).
VedicConfigDefault ==
    [include_nakshatras |-> FALSE, include_angles_in_nakshatra |-> TRUE,
     nakshatra_objects |-> None, vargas |-> <<>>, include_dashas |-> FALSE,
     dasha_systems |-> <<"vimshottari">>, dashas_depth |-> "pratyantardasha",
     include_yogas |-> FALSE]

AllStr(a) == \A i \in 1..Len(a) : a[i].t = "str"

\* serde_json::from_value::<VedicConfig> on a JSON object: a present field of
\* the wrong type is an error, an absent field takes its default, unknown
\* fields are ignored.
vedic_config_from_value(obj) ==
    IF "include_dashas" \in DOMAIN obj /\ obj["include_dashas"].t # "bool"
    THEN Err("Validation", None, "Invalid vedicConfig")
    ELSE IF "dasha_systems" \in DOMAIN obj
            /\ ~(obj["dasha_systems"].t = "arr" /\ AllStr(obj["dasha_systems"].a))
    THEN Err("Validation", None, "Invalid vedicConfig")
    ELSE IF "dashas_depth" \in DOMAIN obj /\ obj["dashas_depth"].t # "str"
    THEN Err("Validation", None, "Invalid vedicConfig")
    ELSE Ok([VedicConfigDefault EXCEPT
                !.include_dashas =
                    IF "include_dashas" \in DOMAIN obj THEN obj["include_dashas"].b ELSE @,
                !.dasha_systems =
                    IF "dasha_systems" \in DOMAIN obj
                    THEN FilterMapStr(obj["dasha_systems"].a) ELSE @,
                !.dashas_depth =
                    IF "dashas_depth" \in DOMAIN obj THEN obj["dashas_depth"].s ELSE @])

\* A variant of the orbSettings arm that takes OrbSettings::default for an
\* aspect the override does not give.
OrbAfterDefault(orbs, obj, name) ==
    IF name \in DOMAIN obj /\ IsSome(as_f64(obj[name])) THEN Get(as_f64(obj[name]))
    ELSE [conjunction |-> 8, opposition |-> 8, trine |-> 7, square |-> 6,
          sextile |-> 4][name]

\* The orbSettings arm: each of the five names, when present with a number.
OrbAfter(orbs, obj, name) ==
    IF name \in DOMAIN obj /\ IsSome(as_f64(obj[name])) THEN Get(as_f64(obj[name]))
    ELSE orbs[name]

merge_orb_settings(orbs, obj) ==
    [conjunction |-> OrbAfter(orbs, obj, "conjunction"),
     opposition |-> OrbAfter(orbs, obj, "opposition"),
     trine |-> OrbAfter(orbs, obj, "trine"),
     square |-> OrbAfter(orbs, obj, "square"),
     sextile |-> OrbAfter(orbs, obj, "sextile")]

\* One iteration of the loop of merge_settings_override: the match on key.
merge_entry(settings, key, value) ==
    CASE key = "zodiacType" ->
            IF IsSome(as_str(value))
            THEN Ok([settings EXCEPT !.zodiac_type = Get(as_str(value))])
            ELSE Err("Validation", None, "zodiacType must be a string")
      [] key = "houseSystem" ->
            IF IsSome(as_str(value))
            THEN Ok([settings EXCEPT !.house_system = Get(as_str(value))])
            ELSE Err("Validation", None, "houseSystem must be a string")
      [] key = "ayanamsa" ->
            IF is_null(value) THEN Ok([settings EXCEPT !.ayanamsa = None])
            ELSE IF IsSome(as_str(value))
            THEN Ok([settings EXCEPT !.ayanamsa = Some(Get(as_str(value)))])
            ELSE Err("Validation", None, "ayanamsa must be a string or null")
      [] key = "orbSettings" ->
            IF IsSome(as_object(value))
            THEN Ok([settings EXCEPT
                        !.orb_settings = merge_orb_settings(@, Get(as_object(value)))])
            ELSE Err("Validation", None, "orbSettings must be an object")
      [] key = "includeObjects" ->
            IF IsSome(as_array(value))
            THEN Ok([settings EXCEPT
                        !.include_objects = FilterMapStr(Get(as_array(value)))])
            ELSE Err("Validation", None, "includeObjects must be an array")
      [] key = "vedicConfig" ->
            IF is_null(value) THEN Ok([settings EXCEPT !.vedic_config = None])
            ELSE IF IsSome(as_object(value))
            THEN LET r == vedic_config_from_value(Get(as_object(value))) IN
                 IF r.ok THEN Ok([settings EXCEPT !.vedic_config = Some(r.val)]) ELSE r
            ELSE Err("Validation", None, "vedicConfig must be an object or null")
      [] OTHER -> Ok(settings)

\* ChartService::merge_settings_override; order is the iteration order of the
\* settings_override map.
RECURSIVE merge_settings_override(_, _, _)
merge_settings_override(settings, settings_override, order) ==
    IF order = <<>> THEN Ok(settings)
    ELSE LET r == merge_entry(settings, order[1], settings_override[order[1]]) IN
         IF r.ok THEN merge_settings_override(r.val, settings_override, Tail(order))
         ELSE r

\* ------------------------------------------------------ cache fingerprint
\* What one Hash::hash call feeds the hasher: a string (its bytes and the
\* 0xff terminator), a u64 or usize, a bool.
HStr(s) == [s |-> s]
HU64(n) == [n |-> n]
HBool(b) == [b |-> b]

HashLocation(loc) ==
    IF IsSome(loc) THEN <<HU64(Get(loc).lat), HU64(Get(loc).lon)>> ELSE <<>>

HashOptStr(o) == IF IsSome(o) THEN <<HStr(Get(o))>> ELSE <<>>

RECURSIVE HashStrs(_)
HashStrs(a) == IF a = <<>> THEN <<>> ELSE <<HStr(a[1])>> \o HashStrs(Tail(a))

\* Vec<String>::hash: the length, then the elements.
HashVecStr(a) == <<HU64(Len(a))>> \o HashStrs(a)

RECURSIVE HashSubjects(_)
HashSubjects(subjects) ==
    IF subjects = <<>> THEN <<>>
    ELSE <<HStr(subjects[1].id)>> \o HashOptStr(subjects[1].birth_date_time)
         \o HashLocation(subjects[1].location) \o HashSubjects(Tail(subjects))

RECURSIVE HashLayers(_, _)
HashLayers(layer_config, order) ==
    IF order = <<>> THEN <<>>
    ELSE LET value == layer_config[order[1]] IN
         <<HStr(order[1]), HStr(value.kind)>> \o HashOptStr(value.subject_id)
         \o HashOptStr(value.explicit_date_time) \o HashLocation(value.location)
         \o HashLayers(layer_config, Tail(order))

\* The value arm of the settings_override loop: a string, a number or a bool
\* is hashed; null, arrays and objects feed nothing.
HashJson(value) ==
    IF IsSome(as_str(value)) THEN <<HStr(Get(as_str(value)))>>
    ELSE IF IsSome(as_f64(value)) THEN <<HU64(Get(as_f64(value)))>>
    ELSE IF IsSome(as_bool(value)) THEN <<HBool(Get(as_bool(value)))>>
    ELSE <<>>

RECURSIVE HashOverride(_, _)
HashOverride(settings_override, order) ==
    IF order = <<>> THEN <<>>
    ELSE <<HStr(order[1])>> \o HashJson(settings_override[order[1]])
         \o HashOverride(settings_override, Tail(order))

HashSettings(settings) ==
    <<HStr(settings.zodiac_type), HStr(settings.house_system)>>
    \o HashOptStr(settings.ayanamsa) \o HashVecStr(settings.include_objects)

\* ChartService::generate_cache_key.  The 64-bit SipHash of the stream is
\* taken to be collision free: the key is the stream the hasher was fed.
generate_cache_key(request, settings) ==
    HashSubjects(request.subjects)
    \o HashLayers(request.layer_config, request.layer_order)
    \o HashSettings(settings)
    \o HashOverride(request.settings_override, request.override_order)

\* -------------------------------------------------------- layer resolution
\* subjects.iter().find(|s| s.id == *subject_id)
FindSubject(subjects, subject_id) ==
    IF \E i \in 1..Len(subjects) : subjects[i].id = subject_id
    THEN Some(subjects[CHOOSE i \in 1..Len(subjects) :
                    /\ subjects[i].id = subject_id
                    /\ \A j \in 1..(i - 1) : subjects[j].id # subject_id])
    ELSE None

\* A variant of the "natal" arm that falls back to the request's first subject
\* when the named subject is not found.
resolve_natal_first_subject(layer_id, config, subjects) ==
    IF ~IsSome(config.subject_id)
    THEN Err("Validation", Some(layer_id), "natal layer must specify a 'subjectId'")
    ELSE LET found == FindSubject(subjects, Get(config.subject_id))
             subject == IF IsSome(found) THEN found
                        ELSE IF Len(subjects) > 0 THEN Some(subjects[1]) ELSE None
         IN IF ~IsSome(subject)
            THEN Err("Validation", Some(layer_id), "subjectId not found")
            ELSE IF ~IsSome(Get(subject).birth_date_time)
            THEN Err("Validation", Some(layer_id), "subject missing 'birthDateTime'")
            ELSE parse_datetime(Get(Get(subject).birth_date_time))

\* The "natal" arm of the match on config.kind.
resolve_natal(layer_id, config, subjects) ==
    IF ~IsSome(config.subject_id)
    THEN Err("Validation", Some(layer_id), "natal layer must specify a 'subjectId'")
    ELSE IF ~IsSome(FindSubject(subjects, Get(config.subject_id)))
    THEN Err("Validation", Some(layer_id), "subjectId not found")
    ELSE IF ~IsSome(Get(FindSubject(subjects, Get(config.subject_id))).birth_date_time)
    THEN Err("Validation", Some(layer_id), "subject missing 'birthDateTime'")
    ELSE parse_datetime(
            Get(Get(FindSubject(subjects, Get(config.subject_id))).birth_date_time))

\* The "transit" arm.
resolve_transit(layer_id, config) ==
    IF ~IsSome(config.explicit_date_time)
    THEN Err("Validation", Some(layer_id), "transit layer must specify 'explicitDateTime'")
    ELSE parse_datetime(Get(config.explicit_date_time))

\* The match on config.kind: the layer's instant, or the error.
resolve_instant(layer_id, config, subjects) ==
    CASE config.kind = "natal" -> resolve_natal(layer_id, config, subjects)
      [] config.kind = "transit" -> resolve_transit(layer_id, config)
      [] OTHER -> Err("Validation", Some(layer_id), "unsupported layer kind")

\* A variant of the location step that prefers the subject's location to the
\* layer config's.
resolve_location_subject_first(config, subjects) ==
    IF IsSome(config.subject_id)
       /\ IsSome(FindSubject(subjects, Get(config.subject_id)))
       /\ IsSome(Get(FindSubject(subjects, Get(config.subject_id))).location)
    THEN Get(FindSubject(subjects, Get(config.subject_id))).location
    ELSE config.location

\* The layer's location: the config's, else the referenced subject's.
resolve_location(config, subjects) ==
    IF IsSome(config.location) THEN config.location
    ELSE IF IsSome(config.subject_id)
            /\ IsSome(FindSubject(subjects, Get(config.subject_id)))
    THEN Get(FindSubject(subjects, Get(config.subject_id))).location
    ELSE None

EphemerisSettingsOf(settings) ==
    [zodiac_type |-> settings.zodiac_type, ayanamsa |-> settings.ayanamsa,
     house_system |-> settings.house_system,
     include_objects |-> settings.include_objects]

\* One iteration of the loop of resolve_layer_contexts.
resolve_layer(layer_id, config, subjects, settings) ==
    LET dt_utc == resolve_instant(layer_id, config, subjects) IN
    IF ~dt_utc.ok THEN dt_utc
    ELSE Ok([layer_id |-> layer_id, kind |-> config.kind, datetime |-> dt_utc.val,
             location |-> resolve_location(config, subjects),
             settings |-> EphemerisSettingsOf(settings)])

\* ChartService::resolve_layer_contexts: the contexts in iteration order, or
\* the error of the first layer that fails.
RECURSIVE resolve_layer_contexts(_, _, _, _)
resolve_layer_contexts(subjects, layer_config, order, settings) ==
    IF order = <<>> THEN Ok(<<>>)
    ELSE LET r == resolve_layer(order[1], layer_config[order[1]], subjects, settings) IN
         IF ~r.ok THEN r
         ELSE LET rest == resolve_layer_contexts(subjects, layer_config, Tail(order),
                                                 settings) IN
              IF rest.ok THEN Ok(<<r.val>> \o rest.val) ELSE rest

\* ------------------------------------------------------ ephemeris adapter
PLANET_IDS ==
    [id \in {"sun", "moon", "mercury", "venus", "mars", "jupiter", "saturn", "uranus",
             "neptune", "pluto", "chiron", "north_node"} |->
        CASE id = "sun" -> 0 [] id = "moon" -> 1 [] id = "mercury" -> 2
          [] id = "venus" -> 3 [] id = "mars" -> 4 [] id = "jupiter" -> 5
          [] id = "saturn" -> 6 [] id = "uranus" -> 7 [] id = "neptune" -> 8
          [] id = "pluto" -> 9 [] id = "chiron" -> 15 [] id = "north_node" -> 11]

HOUSE_SYSTEMS ==
    {"placidus", "whole_sign", "koch", "equal", "regiomontanus", "campanus",
     "alcabitius", "morinus"}

AYANAMSAS ==
    {"lahiri", "chitrapaksha", "fagan_bradley", "de_luce", "raman", "krishnamurti",
     "yukteshwar", "djwhal_khul", "true_citra", "true_revati", "aryabhata",
     "aryabhata_mean_sun"}

\* str::to_lowercase on the names the model uses.
to_lowercase(str) ==
    CASE str = "Moon" -> "moon" [] str = "Placidus" -> "placidus" [] OTHER -> str

\* datetime_to_julian_day: the day number swisseph::julday gives the instant.
datetime_to_julian_day(dt) == 1721060 + 365 * dt.year

\* get_house_system_byte: the house system is known, or InvalidHouseSystem.
get_house_system_byte(house_system) ==
    IF to_lowercase(house_system) \in HOUSE_SYSTEMS THEN Ok(to_lowercase(house_system))
    ELSE Err("Validation", None, "Invalid house system")

\* resolve_ayanamsa: an absent ayanamsa is taken to be "lahiri".
resolve_ayanamsa(ayanamsa) ==
    LET name == IF IsSome(ayanamsa) THEN Get(ayanamsa) ELSE "lahiri" IN
    IF to_lowercase(name) \in AYANAMSAS THEN Ok(to_lowercase(name))
    ELSE Err("Validation", None, "Invalid ayanamsa")

\* configure_flags: FLG_SWIEPH, and FLG_SIDEREAL with the sidereal mode set.
\* The flags are kept as the record of the two things they select.
configure_flags(settings) ==
    IF settings.zodiac_type = "sidereal"
    THEN LET mode == resolve_ayanamsa(settings.ayanamsa) IN
         IF mode.ok THEN Ok([sidereal |-> TRUE, mode |-> mode.val]) ELSE mode
    ELSE Ok([sidereal |-> FALSE, mode |-> "none"])

\* The oracle swisseph::calc_ut: what the installed ephemeris files give for
\* a body at a day number.  A body the files do not cover is an error; the
\* longitude of a covered body is a fixed function of the inputs.
swisseph_calc_ut(jd, planet_code, flags, e) ==
    IF planet_code \in e.missing THEN Err("Calculation", None, "Swiss Ephemeris error")
    ELSE Ok([lon |-> (jd * 7 + planet_code * 47
                      + (IF flags.sidereal THEN 336 ELSE 0)),
             lat |-> 0,
             speed |-> IF planet_code = 11 THEN -1 ELSE 1])

\* calc_planet_position
calc_planet_position(planet_id, jd, flags, e) ==
    IF planet_id \notin DOMAIN PLANET_IDS
    THEN Err("Calculation", None, "Unknown planet ID")
    ELSE LET result == swisseph_calc_ut(jd, PLANET_IDS[planet_id], flags, e) IN
         IF ~result.ok THEN result
         ELSE Ok([lon |-> result.val.lon % 360, lat |-> result.val.lat,
                  speed_lon |-> result.val.speed, retrograde |-> result.val.speed < 0])

\* A variant of the derivation without the reduction to [0, 360).
put_south_node_unreduced(planets, north) ==
    IF north.ok
    THEN MapPut(planets, "south_node",
                [lon |-> north.val.lon + 180, lat |-> 0,
                 speed_lon |-> north.val.speed_lon,
                 retrograde |-> north.val.retrograde])
    ELSE planets

\* The south node is derived from the north node, when that is calculated.
put_south_node(planets, north) ==
    IF north.ok
    THEN MapPut(planets, "south_node",
                [lon |-> (north.val.lon + 180) % 360, lat |-> 0,
                 speed_lon |-> north.val.speed_lon,
                 retrograde |-> north.val.retrograde])
    ELSE planets

\* `if let Ok(planet_pos) = ... { planets.insert(...) }`
put_position(planets, obj_id_lower, pos) ==
    IF pos.ok THEN MapPut(planets, obj_id_lower, pos.val) ELSE planets

\* The planet loop of calc_positions: a body whose calculation fails is left
\* out of the map (if let Ok(..)), and south_node is derived from north_node.
RECURSIVE calc_planets(_, _, _, _, _)
calc_planets(objs, jd, flags, e, planets) ==
    IF objs = <<>> THEN planets
    ELSE IF to_lowercase(objs[1]) = "south_node"
    THEN calc_planets(Tail(objs), jd, flags, e,
            put_south_node(planets, calc_planet_position("north_node", jd, flags, e)))
    ELSE calc_planets(Tail(objs), jd, flags, e,
            put_position(planets, to_lowercase(objs[1]),
                         calc_planet_position(to_lowercase(objs[1]), jd, flags, e)))

\* calc_houses: the oracle swisseph::houses_ex2 fails or gives cusps and angles.
calc_houses(jd, loc, house_system_str, e) ==
    IF e.houses_fail THEN Err("Calculation", None, "House calculation failed")
    ELSE LET asc == (jd + loc.lat + loc.lon) % 360 IN
         Ok([system |-> house_system_str,
             cusps |-> [i \in 1..12 |-> (asc + 30 * (i - 1)) % 360],
             angles |-> [asc |-> asc, mc |-> (asc + 270) % 360,
                         ic |-> (asc + 270 + 180) % 360, dc |-> (asc + 180) % 360]])

\* calc_positions after the houses were calculated (or there is no location).
positions_with_houses(location, planets, houses) ==
    IF ~houses.ok THEN houses
    ELSE Ok([planets |-> planets,
             houses |-> IF IsSome(location) THEN Some(houses.val) ELSE None])

\* calc_positions once the flags are configured.
positions_with_flags(jd, location, settings, e, flags) ==
    IF ~flags.ok THEN flags
    ELSE positions_with_houses(location,
            calc_planets(settings.include_objects, jd, flags.val, e, EmptyMap),
            IF IsSome(location)
            THEN calc_houses(jd, Get(location), settings.house_system, e)
            ELSE Ok(None))

\* calc_positions once the house system is known.
positions_with_house_system(jd, location, settings, e, house_system_byte) ==
    IF ~house_system_byte.ok THEN house_system_byte
    ELSE positions_with_flags(jd, location, settings, e, configure_flags(settings))

\* SwissEphemerisAdapter::calc_positions
calc_positions(dt_utc, location, settings, e) ==
    positions_with_house_system(datetime_to_julian_day(dt_utc), location, settings, e,
                                get_house_system_byte(settings.house_system))

\* ------------------------------------------------------------ LRU cache
\* Capacity of the cache of a service (CACHE_SIZE), a bound of the model.
CacheSize == 2

cache_capacity == IF CacheSize > 1 THEN CacheSize ELSE 1

HasKey(c, key) == \E i \in 1..Len(c) : c[i].key = key

IndexOf(c, key) == CHOOSE i \in 1..Len(c) : c[i].key = key

Without(c, i) == [j \in 1..(Len(c) - 1) |-> IF j < i THEN c[j] ELSE c[j + 1]]

\* LruCache::get: the entry becomes the most recently used.
cache_get(c, key) ==
    IF HasKey(c, key)
    THEN [found |-> TRUE, value |-> c[IndexOf(c, key)].value,
          cache |-> <<c[IndexOf(c, key)]>> \o Without(c, IndexOf(c, key))]
    ELSE [found |-> FALSE, value |-> None, cache |-> c]

\* A variant of put that makes room by dropping the most recently used entry.
cache_put_drop_newest(c, key, value) ==
    LET kept == IF HasKey(c, key) THEN Without(c, IndexOf(c, key)) ELSE c
        room == IF Len(kept) >= cache_capacity
                THEN SubSeq(kept, Len(kept) - cache_capacity + 2, Len(kept)) ELSE kept
    IN <<[key |-> key, value |-> value]>> \o room

\* LruCache::put: replaces the entry of the key, or inserts and drops the
\* least recently used entry when the capacity is exceeded.
cache_put(c, key, value) ==
    LET kept == IF HasKey(c, key) THEN Without(c, IndexOf(c, key)) ELSE c
        room == IF Len(kept) >= cache_capacity
                THEN SubSeq(kept, 1, cache_capacity - 1) ELSE kept
    IN <<[key |-> key, value |-> value]>> \o room

\* ------------------------------------------------------ vedic and western
\* The match on dashas_depth: an unknown depth is taken as pratyantardasha.
dasha_level(dashas_depth) ==
    CASE dashas_depth = "mahadasha" -> "Mahadasha"
      [] dashas_depth = "antardasha" -> "Antardasha"
      [] OTHER -> "Pratyantardasha"

DashaSystems == {"vimshottari", "yogini", "ashtottari", "kalachakra"}

\* The period calculators of aphrodite_core::vedic, as far as the service
\* depends on them: they work from the natal Moon.
compute_dasha(system, datetime, natal_positions, depth) ==
    IF "moon" \notin DOMAIN natal_positions.planets
    THEN Err("Calculation", None, "dasha error")
    ELSE Ok([lord_from |-> natal_positions.planets["moon"].lon, depth |-> depth])

FirstNatal(layer_contexts) ==
    IF \E i \in 1..Len(layer_contexts) : layer_contexts[i].kind = "natal"
    THEN Some(layer_contexts[CHOOSE i \in 1..Len(layer_contexts) :
                    /\ layer_contexts[i].kind = "natal"
                    /\ \A j \in 1..(i - 1) : layer_contexts[j].kind # "natal"])
    ELSE None

\* ChartService::calculate_vedic_data
calculate_vedic_data(positions_by_layer, layer_contexts, vedic_config) ==
    LET layers == {layer_contexts[i].layer_id : i \in 1..Len(layer_contexts)}
        natal == FirstNatal(layer_contexts)
    IN
    IF vedic_config.include_dashas /\ vedic_config.dasha_systems # <<>> /\ IsSome(natal)
    THEN LET depth == dasha_level(vedic_config.dashas_depth)
             dasha_system == vedic_config.dasha_systems[1]
             periods == compute_dasha(dasha_system, Get(natal).datetime,
                                      positions_by_layer[Get(natal).layer_id], depth)
         IN
         IF dasha_system \notin DashaSystems
         THEN Err("Validation", None, "Unknown dasha system")
         ELSE IF ~periods.ok THEN periods
         ELSE Ok([layers |-> layers,
                  dashas |-> Some([system |-> dasha_system, depth |-> depth,
                                   birth_date_time |-> Get(natal).datetime,
                                   periods |-> periods.val])])
    ELSE Ok([layers |-> layers, dashas |-> None])

\* ChartService::calculate_western_data: per layer, the bodies given a decan.
calculate_western_data(positions_by_layer) ==
    [l \in DOMAIN positions_by_layer |-> DOMAIN positions_by_layer[l].planets]

\* ---------------------------------------------------------- get_positions
\* The blocking task: calc_positions for each context in turn, stopping at
\* the first error.  calls counts the calc_positions invocations made.
RECURSIVE calc_all_layers(_, _, _, _)
layer_calculated(layer_contexts, e, positions_by_layer, calls, positions) ==
    IF ~positions.ok THEN [result |-> positions, calls |-> calls + 1]
    ELSE calc_all_layers(Tail(layer_contexts), e,
                         MapPut(positions_by_layer, layer_contexts[1].layer_id,
                                positions.val),
                         calls + 1)

calc_all_layers(layer_contexts, e, positions_by_layer, calls) ==
    IF layer_contexts = <<>>
    THEN [result |-> Ok(positions_by_layer), calls |-> calls]
    ELSE layer_calculated(layer_contexts, e, positions_by_layer, calls,
            calc_positions(layer_contexts[1].datetime, layer_contexts[1].location,
                           layer_contexts[1].settings, e))

\* The response entry of one layer.
LayerResponse(ctx, positions) ==
    [id |-> ctx.layer_id, kind |-> ctx.kind, date_time |-> ctx.datetime,
     location |-> ctx.location,
     positions |-> [planets |-> positions.planets, houses |-> positions.houses]]

\* The "Build response" loop of get_positions.
layers_response(layer_contexts, positions_by_layer) ==
    [l \in {layer_contexts[i].layer_id : i \in 1..Len(layer_contexts)}
            \cap DOMAIN positions_by_layer |->
        LayerResponse(
            layer_contexts[CHOOSE i \in 1..Len(layer_contexts) :
                                layer_contexts[i].layer_id = l],
            positions_by_layer[l])]

\* The response built from the layers' positions and the vedic and western
\* payloads (the tail of get_positions).
build_response(settings, layer_contexts, calc, vedic, western) ==
    IF ~vedic.ok
    THEN [result |-> vedic, resolved |-> Some(layer_contexts), calls |-> calc.calls]
    ELSE [result |-> Ok([layers |-> layers_response(layer_contexts.val, calc.result.val),
                         settings |-> settings,
                         vedic |-> IF IsSome(settings.vedic_config)
                                   THEN Some(vedic.val) ELSE None,
                         western |-> IF DOMAIN western = {} THEN None
                                     ELSE Some(western)]),
          resolved |-> Some(layer_contexts), calls |-> calc.calls]

\* get_positions once the layers' positions were calculated (or failed).
after_calc(settings, layer_contexts, calc) ==
    IF ~calc.result.ok
    THEN [result |-> calc.result, resolved |-> Some(layer_contexts), calls |-> calc.calls]
    ELSE build_response(settings, layer_contexts, calc,
            IF IsSome(settings.vedic_config)
            THEN calculate_vedic_data(calc.result.val, layer_contexts.val,
                                      Get(settings.vedic_config))
            ELSE Ok(None),
            calculate_western_data(calc.result.val))

\* get_positions once the layers were resolved (or failed to).
after_resolve(settings, e, layer_contexts) ==
    IF ~layer_contexts.ok
    THEN [result |-> layer_contexts, resolved |-> Some(layer_contexts), calls |-> 0]
    ELSE after_calc(settings, layer_contexts,
                    calc_all_layers(layer_contexts.val, e, EmptyMap, 0))

\* The part of get_positions after a cache miss: resolve, calculate, build.
\* Gives the response (or the error), the result of layer resolution and the
\* number of gateway calls made.
compute_response(request, settings, e) ==
    after_resolve(settings, e,
        resolve_layer_contexts(request.subjects, request.layer_config,
                               request.layer_order, settings))

\* A get_positions that returns what it computed without caching it.
after_miss_no_insert(c, cache_key, settings, computed) ==
    [result |-> computed.result, cache |-> c,
     hit |-> FALSE, settings |-> Some(settings),
     resolved |-> computed.resolved, calls |-> computed.calls]

\* A get_positions that caches whatever the computation gave, an error
\* included.
after_miss_caches_errors(c, cache_key, settings, computed) ==
    [result |-> computed.result,
     cache |-> cache_put(c, cache_key, computed.result),
     hit |-> FALSE, settings |-> Some(settings),
     resolved |-> computed.resolved, calls |-> computed.calls]

\* get_positions after a cache miss under cache_key: compute, and cache a
\* successful response.
after_miss(c, cache_key, settings, computed) ==
    [result |-> computed.result,
     cache |-> IF computed.result.ok
               THEN cache_put(c, cache_key, computed.result.val) ELSE c,
     hit |-> FALSE, settings |-> Some(settings),
     resolved |-> computed.resolved, calls |-> computed.calls]

\* get_positions after the cache lookup.
after_lookup(request, c, e, settings, cache_key, looked) ==
    IF looked.found
    THEN [result |-> Ok(looked.value), cache |-> looked.cache, hit |-> TRUE,
          settings |-> Some(settings), resolved |-> None, calls |-> 0]
    ELSE after_miss(c, cache_key, settings, compute_response(request, settings, e))

\* get_positions with the cache key of the request.
with_cache_key(request, c, e, settings, cache_key) ==
    after_lookup(request, c, e, settings, cache_key, cache_get(c, cache_key))

\* get_positions after the settings-override merge.
after_merge(request, c, e, merged) ==
    IF ~merged.ok
    THEN [result |-> merged, cache |-> c, hit |-> FALSE, settings |-> None,
          resolved |-> None, calls |-> 0]
    ELSE with_cache_key(request, c, e, merged.val,
                        generate_cache_key(request, merged.val))

\* ChartService::get_positions on the cache c: the result, the cache after
\* the call, whether the cache answered, the merged settings when the merge
\* succeeded, the result of layer resolution when it ran, and the number of
\* gateway calls.
get_positions(request, c, e) ==
    after_merge(request, c, e,
        merge_settings_override(request.settings, request.settings_override,
                                request.override_order))

\* ----------------------------------------------------------- aspect engine
CanonicalAngle ==
    [conjunction |-> 0, sextile |-> 60, square |-> 90, trine |-> 120,
     opposition |-> 180]

AspectNames == DOMAIN CanonicalAngle

Abs(x) == IF x < 0 THEN -x ELSE x

\* The angular separation of two longitudes, in [0, 180].
Separation(lon_a, lon_b) ==
    LET d == Abs(lon_a - lon_b) IN IF d <= 360 - d THEN d ELSE 360 - d

\* The aspect types a separation matches under an orb table.
MatchingAspects(separation, orb_settings) ==
    {t \in AspectNames : Abs(separation - CanonicalAngle[t]) <= orb_settings[t]}

\* A variant of the orb table handed to the aspect engine in which the sextile
\* orb is read from the conjunction field.
aspect_orb_settings_sextile_slip(settings) ==
    [conjunction |-> settings.orb_settings.conjunction,
     opposition |-> settings.orb_settings.opposition,
     trine |-> settings.orb_settings.trine,
     square |-> settings.orb_settings.square,
     sextile |-> settings.orb_settings.conjunction]

\* A variant of the orb table in which the trine and the square orbs change
\* places.
aspect_orb_settings_trine_square_swap(settings) ==
    [conjunction |-> settings.orb_settings.conjunction,
     opposition |-> settings.orb_settings.opposition,
     trine |-> settings.orb_settings.square,
     square |-> settings.orb_settings.trine,
     sextile |-> settings.orb_settings.sextile]

\* The orb table get_chartspec hands to the aspect engine.
aspect_orb_settings(settings) ==
    [conjunction |-> settings.orb_settings.conjunction,
     opposition |-> settings.orb_settings.opposition,
     trine |-> settings.orb_settings.trine,
     square |-> settings.orb_settings.square,
     sextile |-> settings.orb_settings.sextile]

\* The bodies of all layers that the include list admits.
IncludedBodies(positions_by_layer, include_objects) ==
    {<<l, o>> \in UNION {{<<l, o>> : o \in DOMAIN positions_by_layer[l].planets} :
                            l \in DOMAIN positions_by_layer} :
        o \in Range(include_objects)}

\* AspectCalculator::compute_all_aspect_sets: one aspect per unordered pair
\* of included bodies and matching aspect type.
compute_all_aspect_sets(positions_by_layer, orb_settings, include_objects) ==
    LET bodies == IncludedBodies(positions_by_layer, include_objects)
        lon(p) == positions_by_layer[p[1]].planets[p[2]].lon
    IN {[pair |-> {p, q}, type |-> t,
         orb |-> Separation(lon(p), lon(q)) - CanonicalAngle[t]] :
            <<p, q, t>> \in {<<p, q, t>> \in bodies \X bodies \X AspectNames :
                                /\ p # q
                                /\ t \in MatchingAspects(Separation(lon(p), lon(q)),
                                                         orb_settings)}}

\* ---------------------------------------------------------------- wheels
Ring(slug, type, orderIndex, inner, outer, dataSource) ==
    [slug |-> slug, type |-> type, orderIndex |-> orderIndex, radiusInner |-> inner,
     radiusOuter |-> outer, dataSource |-> dataSource]

\* ChartService::embedded_default_wheel_json (radii in hundredths).
embedded_default_wheel_json ==
    [name |-> "Standard Natal Wheel",
     rings |-> Some(<<
        Ring("ring_signs", "signs", 0, 85, 100, [kind |-> "static_zodiac"]),
        Ring("ring_houses", "houses", 1, 75, 85,
             [kind |-> "layer_houses", layerId |-> "natal"]),
        Ring("ring_planets", "planets", 2, 55, 75,
             [kind |-> "layer_planets", layerId |-> "natal"])>>)]

\* A wheel file with an empty ring array, and one with no ring array.
EmptyRingsWheel == [name |-> "Test Wheel", rings |-> Some(<<>>)]
MissingRingsWheel == [name |-> "Test Wheel", rings |-> None]

\* load_wheel_definition_from_json: a missing or empty ring list is rejected.
load_wheel_definition_from_json(json) ==
    IF ~IsSome(json.rings) THEN [ok |-> FALSE, err |-> "MissingField"]
    ELSE IF Get(json.rings) = <<>> THEN [ok |-> FALSE, err |-> "ValidationError"]
    ELSE Ok([name |-> json.name, rings |-> Get(json.rings)])

\* From<WheelDefinitionError> for ApiError: every variant is a ValidationError.
wheel_error_to_api(err) ==
    CASE err = "InvalidJson" -> Err("Validation", None, "Invalid wheel definition JSON")
      [] err = "ValidationError" ->
            Err("Validation", None, "Wheel definition validation error")
      [] err = "MissingField" ->
            Err("Validation", None, "Missing required field in wheel definition")
      [] OTHER -> Err("Validation", None, "Invalid field value in wheel definition")

\* The rings of a wheel definition in ascending orderIndex (rings of equal
\* orderIndex in the order of the definition).
rings_by_order_index(rings) ==
    CHOOSE q \in Orders(1..Len(rings)) :
        \A a, b \in 1..Len(rings) :
            a < b => \/ rings[q[a]].orderIndex < rings[q[b]].orderIndex
                     \/ (rings[q[a]].orderIndex = rings[q[b]].orderIndex /\ q[a] < q[b])

\* A houses ring whose layer has no house data is skipped.
ring_skipped(ring, positions_by_layer) ==
    /\ ring.type = "houses"
    /\ \/ "layerId" \notin DOMAIN ring.dataSource
       \/ ring.dataSource.layerId \notin DOMAIN positions_by_layer
       \/ ~IsSome(positions_by_layer[ring.dataSource.layerId].houses)

\* The primitives of a ring: twelve sign segments, twelve house segments
\* between the cusps, or one glyph per object of the ring's layer that the
\* object filter admits.
ring_items(ring, positions_by_layer, object_filter) ==
    CASE ring.type = "signs" ->
            {[kind |-> "segment", from |-> 30 * (k - 1), to |-> 30 * k] : k \in 1..12}
      [] ring.type = "houses" ->
            {[kind |-> "segment",
              from |-> Get(positions_by_layer[ring.dataSource.layerId].houses).cusps[k],
              to |-> Get(positions_by_layer[ring.dataSource.layerId].houses)
                        .cusps[(k % 12) + 1]] : k \in 1..12}
      [] ring.type = "planets" /\ "layerId" \in DOMAIN ring.dataSource
            /\ ring.dataSource.layerId \in DOMAIN positions_by_layer ->
            {[kind |-> "glyph", layer |-> ring.dataSource.layerId, object |-> o,
              lon |-> positions_by_layer[ring.dataSource.layerId].planets[o].lon] :
                o \in {o \in DOMAIN positions_by_layer[ring.dataSource.layerId].planets :
                            ~IsSome(object_filter) \/ o \in Range(Get(object_filter))}}
      [] OTHER -> {}

assembled_ring(ring, positions_by_layer, object_filter) ==
    [slug |-> ring.slug, type |-> ring.type, orderIndex |-> ring.orderIndex,
     items |-> ring_items(ring, positions_by_layer, object_filter)]

\* The rings that are not skipped, in the order given.
RECURSIVE assemble_rings(_, _, _, _)
assemble_rings(rings, q, positions_by_layer, object_filter) ==
    IF q = <<>> THEN <<>>
    ELSE (IF ring_skipped(rings[q[1]], positions_by_layer) THEN <<>>
          ELSE <<assembled_ring(rings[q[1]], positions_by_layer, object_filter)>>)
         \o assemble_rings(rings, Tail(q), positions_by_layer, object_filter)

\* WheelAssembler::build_wheel: it returns a wheel, never an error.
build_wheel(wheel, positions_by_layer, aspect_sets, object_filter) ==
    [name |-> wheel.name,
     rings |-> assemble_rings(wheel.rings, rings_by_order_index(wheel.rings),
                              positions_by_layer, object_filter)]

\* The bodies that have a planet glyph in an assembled wheel.
Glyphs(wheel) ==
    UNION {{<<item.layer, item.object>> :
                item \in {x \in wheel.rings[i].items : x.kind = "glyph"}} :
            i \in 1..Len(wheel.rings)}

\* ChartSpecGenerator::generate on an 800 x 800 canvas: the shapes of the
\* rings in the order of the assembled wheel, then the aspect lines between
\* bodies that both have a glyph.
generate_spec(wheel, aspect_sets) ==
    [width |-> 800, height |-> 800, center |-> [x |-> 400, y |-> 400],
     rings |-> wheel.rings,
     aspect_lines |-> {a \in aspect_sets : a.pair \subseteq Glyphs(wheel)}]

\* A variant of the object filter that is an empty list whatever the
\* settings include.
object_filter_empty_list(settings) == Some(<<>>)

\* The object filter get_chartspec hands to the assembler.
object_filter_of(settings) ==
    IF settings.include_objects = <<>> THEN None ELSE Some(settings.include_objects)

\* The positions of the response's layers, as get_chartspec converts them.
positions_of_response(ephemeris_response) ==
    [l \in DOMAIN ephemeris_response.layers |-> ephemeris_response.layers[l].positions]

\* ----------------------------------------------------------- get_chartspec
\* The aspect step of get_chartspec: the positions of the response's layers
\* and the orb table and include list of the response's settings go to the
\* aspect engine.
aspects_of_response(ephemeris_response) ==
    compute_all_aspect_sets(
        [l \in DOMAIN ephemeris_response.layers |->
            ephemeris_response.layers[l].positions],
        aspect_orb_settings(ephemeris_response.settings),
        ephemeris_response.settings.include_objects)

\* get_chartspec after the wheel definition was loaded (or failed to load).
chartspec_with_wheel(got, aspect_sets, wheel) ==
    IF ~wheel.ok
    THEN [got EXCEPT !.result = wheel_error_to_api(wheel.err)]
    ELSE [got EXCEPT !.result =
            Ok([spec |-> generate_spec(
                            build_wheel(wheel.val, positions_of_response(got.result.val),
                                        aspect_sets,
                                        object_filter_of(got.result.val.settings)),
                            aspect_sets),
                ephemeris |-> got.result.val])]

\* get_chartspec after get_positions.
chartspec_of_positions(wheel_json, got) ==
    IF ~got.result.ok THEN got @@ [aspect_orbs |-> None]
    ELSE chartspec_with_wheel(got, aspects_of_response(got.result.val),
                              load_wheel_definition_from_json(wheel_json))
         @@ [aspect_orbs |-> Some(aspect_orb_settings(got.result.val.settings))]

\* ChartService::get_chartspec: get_positions first, then the aspects from
\* the response's settings, then the wheel definition, then the spec.
get_chartspec(request, wheel_json, c, e) ==
    chartspec_of_positions(wheel_json, get_positions(request, c, e))

\* ------------------------------------------------------------------ routes
\* routes::render_ephemeris: get_positions on the service; its result is the
\* response.
render_ephemeris(request, c, e) ==
    get_positions(request, c, e)
    @@ [aspect_orbs |-> None, second_hit |-> None, built_from |-> None]

\* render_chartspec after its second call, of get_positions.
chartspec_response(first, second) ==
    [first EXCEPT
        !.result = IF second.result.ok
                   THEN Ok([spec |-> first.result.val.spec,
                            ephemeris |-> second.result.val])
                   ELSE second.result,
        !.cache = second.cache,
        !.calls = first.calls + second.calls]
    @@ [second_hit |-> Some(second.hit),
        built_from |-> Some(first.result.val.ephemeris)]

\* render_chartspec after get_chartspec.
after_chartspec(request, e, first) ==
    IF ~first.result.ok THEN first @@ [second_hit |-> None, built_from |-> None]
    ELSE chartspec_response(first, get_positions(request, first.cache, e))

\* routes::render_chartspec: get_chartspec, then get_positions again.
render_chartspec(request, wheel_json, c, e) ==
    after_chartspec(request, e, get_chartspec(request, wheel_json, c, e))

\* ---------------------------------------------------------- the requests
Loc(lat, lon) == [lat |-> lat, lon |-> lon]

Subject(id, birth_date_time, location) ==
    [id |-> id, birth_date_time |-> birth_date_time, location |-> location]

LayerConfig(kind, subject_id, explicit_date_time, location) ==
    [kind |-> kind, subject_id |-> subject_id,
     explicit_date_time |-> explicit_date_time, location |-> location]

\* OrbSettings::default
DefaultOrbSettings ==
    [conjunction |-> 8, opposition |-> 8, trine |-> 7, square |-> 6, sextile |-> 4]

\* ChartSettings::default, with an include list.
BaseSettings ==
    [zodiac_type |-> "tropical", ayanamsa |-> None, house_system |-> "placidus",
     orb_settings |-> DefaultOrbSettings, include_objects |-> <<"sun", "moon">>,
     vedic_config |-> None]

Person1 == Subject("p1", Some("1990-01-01T12:00:00Z"), Some(Loc(40, -74)))
Person2 == Subject("p2", None, None)

NatalOf(id) == LayerConfig("natal", Some(id), None, None)
TransitAt(dt) == LayerConfig("transit", None, Some(dt), None)

Request(subjects, settings, layer_config, settings_override) ==
    [subjects |-> subjects, settings |-> settings, layer_config |-> layer_config,
     settings_override |-> settings_override]

BaseRequest == Request(<<Person1>>, BaseSettings, Map1("natal", NatalOf("p1")), EmptyMap)

WithSettings(s) == [BaseRequest EXCEPT !.settings = s]
WithOverride(o) == [BaseRequest EXCEPT !.settings_override = o]
WithLayers(l) == [BaseRequest EXCEPT !.layer_config = l]
WithSubjects(q) == [BaseRequest EXCEPT !.subjects = q]

\* Requests that differ in effective settings, and requests with two-entry maps.
CacheContents ==
    {BaseRequest,
     WithSettings([BaseSettings EXCEPT !.orb_settings.conjunction = 10]),
     WithOverride(Map1("orbSettings", JObj(Map1("conjunction", JNum(10))))),
     WithOverride(Map1("orbSettings", JObj(Map1("conjunction", JNum(12))))),
     WithOverride(Map1("includeObjects", JArr(<<JStr("sun")>>))),
     WithOverride(Map1("includeObjects", JArr(<<JStr("moon")>>))),
     WithOverride(Map1("vedicConfig", JObj(Map1("include_dashas", JBool(TRUE))))),
     WithOverride(Map1("vedicConfig", JObj(Map1("dashas_depth", JStr("mahadasha"))))),
     WithOverride(Map1("houseSystem", JStr("koch"))),
     WithOverride(Map2("zodiacType", JStr("sidereal"), "houseSystem", JStr("koch"))),
     WithLayers(Map2("natal", NatalOf("p1"),
                     "transit", TransitAt("2024-06-01T00:00:00Z")))}

\* Requests that break a validation rule, one rule each, layers of every kind
\* with and without what they need, and overrides of the orb table.
PipelineContents ==
    {BaseRequest,
     WithSubjects(<<>>),
     WithSubjects(<<Subject("", Some("1990-01-01T12:00:00Z"), None)>>),
     WithSubjects(<<Person1, Person1>>),
     WithSubjects(<<Subject("p1", Some("not-a-date"), None)>>),
     WithSubjects(<<Subject("p1", Some("3500-01-01T00:00:00Z"), None)>>),
     WithSubjects(<<Subject("p1", Some("1990-01-01T12:00:00Z"), Some(Loc(95, 0)))>>),
     WithSubjects(<<Subject("p1", None, None)>>),
     WithSettings([BaseSettings EXCEPT !.zodiac_type = "invalid_zodiac"]),
     WithSettings([BaseSettings EXCEPT !.house_system = "invalid_system"]),
     WithSettings([BaseSettings EXCEPT !.zodiac_type = "sidereal",
                                       !.ayanamsa = Some("invalid_ayanamsa")]),
     WithSettings([BaseSettings EXCEPT !.orb_settings.conjunction = 50]),
     WithSettings([BaseSettings EXCEPT !.orb_settings.sextile = -5]),
     WithSettings([BaseSettings EXCEPT !.include_objects = <<"sun", "invalid_planet">>]),
     WithSettings([BaseSettings EXCEPT !.include_objects = <<"sun", "chiron">>]),
     WithSettings([BaseSettings EXCEPT
                        !.include_objects = <<"north_node", "south_node">>]),
     WithOverride(Map1("orbSettings", JObj(Map1("conjunction", JNum(45))))),
     WithOverride(Map1("orbSettings", JObj(Map1("trine", JNum(10))))),
     WithOverride(Map1("zodiacType", JNum(1))),
     WithLayers(EmptyMap),
     WithLayers(Map1("l1", LayerConfig("invalid_kind", None, None, None))),
     WithLayers(Map1("natal", LayerConfig("natal", None, None, None))),
     WithLayers(Map1("natal", NatalOf("nobody"))),
     WithLayers(Map1("transit", TransitAt("2024-06-01T00:00:00Z"))),
     WithLayers(Map1("transit", LayerConfig("transit", None, None, None))),
     WithLayers(Map1("transit", TransitAt("not-a-date"))),
     WithLayers(Map1("progressed",
                     LayerConfig("progressed", None, Some("2024-06-01T00:00:00Z"), None))),
     WithLayers(Map1("progressed", LayerConfig("progressed", None, None, None))),
     WithLayers(Map2("natal", NatalOf("p1"),
                     "progressed", LayerConfig("progressed", None, None, None))),
     WithLayers(Map2("natal", NatalOf("nobody"),
                     "transit", TransitAt("2024-06-01T00:00:00Z"))),
     [BaseRequest EXCEPT !.subjects = <<Person1, Person2>>,
                         !.layer_config = Map2("natal", NatalOf("p1"),
                                               "natal2", NatalOf("p2"))]}

\* Requests with layers of every kind, with and without what they need.
LayerContents ==
    {BaseRequest,
     WithSubjects(<<Subject("p1", None, None)>>),
     WithSubjects(<<Subject("p1", Some("not-a-date"), None)>>),
     WithLayers(Map1("natal", LayerConfig("natal", None, None, None))),
     WithLayers(Map1("natal", NatalOf("nobody"))),
     WithLayers(Map1("transit", TransitAt("2024-06-01T00:00:00Z"))),
     WithLayers(Map1("transit", LayerConfig("transit", None, None, None))),
     WithLayers(Map1("transit", TransitAt("not-a-date"))),
     WithLayers(Map1("progressed",
                     LayerConfig("progressed", None, Some("2024-06-01T00:00:00Z"), None))),
     WithLayers(Map1("progressed", LayerConfig("progressed", None, None, None))),
     WithLayers(Map2("natal", NatalOf("p1"),
                     "transit", TransitAt("2024-06-01T00:00:00Z"))),
     WithLayers(Map2("natal", NatalOf("p1"),
                     "transit", LayerConfig("transit", None, None, None))),
     WithLayers(Map2("natal", NatalOf("nobody"),
                     "transit", TransitAt("2024-06-01T00:00:00Z"))),
     WithLayers(Map2("natal", NatalOf("nobody"),
                     "transit", TransitAt("not-a-date"))),
     [BaseRequest EXCEPT !.subjects = <<Person1, Person2>>,
                         !.layer_config = Map2("natal", NatalOf("p1"),
                                               "natal2", NatalOf("p2"))],
     [BaseRequest EXCEPT !.subjects = <<Person2, Person1>>,
                         !.layer_config = Map1("natal", NatalOf("p1"))],
     WithLayers(Map1("natal", LayerConfig("natal", Some("p1"), None, Some(Loc(10, 20))))),
     WithLayers(Map1("transit",
                     LayerConfig("transit", Some("p1"), Some("2024-06-01T00:00:00Z"),
                                 None))),
     WithLayers(Map1("transit",
                     LayerConfig("transit", Some("nobody"), Some("2024-06-01T00:00:00Z"),
                                 None))),
     WithSubjects(<<Subject("p1", Some("1990-01-01T12:00:00Z"), None)>>),
     WithSettings([BaseSettings EXCEPT !.include_objects = <<"south_node">>]),
     [BaseRequest EXCEPT
        !.settings = [BaseSettings EXCEPT
                        !.include_objects = <<"sun", "south_node", "north_node">>],
        !.layer_config = Map2("natal", NatalOf("p1"),
                              "transit", TransitAt("2024-06-01T00:00:00Z"))]}

\* Requests with overrides of every recognized key, well typed and not, with
\* unknown keys, and with base settings that differ from the defaults.
MergeContents ==
    {BaseRequest,
     WithOverride(Map1("futureKey", JNum(1))),
     WithOverride(Map2("futureKey", JStr("x"), "zodiacType", JStr("sidereal"))),
     WithOverride(Map1("zodiacType", JNum(1))),
     WithOverride(Map1("houseSystem", JBool(TRUE))),
     WithOverride(Map1("houseSystem", JStr("koch"))),
     WithOverride(Map1("ayanamsa", JNum(1))),
     WithOverride(Map1("ayanamsa", JNull)),
     WithOverride(Map2("zodiacType", JStr("sidereal"), "ayanamsa", JStr("raman"))),
     WithOverride(Map1("orbSettings", JStr("wide"))),
     WithOverride(Map1("orbSettings", JObj(EmptyMap))),
     WithOverride(Map1("orbSettings", JObj(Map1("conjunction", JStr("wide"))))),
     WithOverride(Map1("orbSettings",
                       JObj(Map2("conjunction", JNum(3), "nonagon", JNum(2))))),
     [BaseRequest EXCEPT
        !.settings = [BaseSettings EXCEPT !.orb_settings.conjunction = 10,
                                          !.house_system = "koch"],
        !.settings_override = Map1("orbSettings", JObj(Map1("trine", JNum(9))))],
     WithOverride(Map1("includeObjects", JStr("sun"))),
     WithOverride(Map1("includeObjects", JArr(<<JStr("moon")>>))),
     WithOverride(Map1("includeObjects", JArr(<<JStr("sun"), JNum(3)>>))),
     WithOverride(Map1("vedicConfig", JNum(1))),
     WithOverride(Map1("vedicConfig", JNull)),
     WithOverride(Map1("vedicConfig", JObj(Map1("include_dashas", JStr("yes"))))),
     WithOverride(Map1("vedicConfig", JObj(Map1("include_dashas", JBool(TRUE))))),
     WithOverride(Map1("vedicConfig",
                       JObj(Map2("include_dashas", JBool(TRUE),
                                 "dashas_depth", JStr("deep"))))),
     WithOverride(Map1("vedicConfig",
                       JObj(Map2("include_dashas", JBool(TRUE),
                                 "dasha_systems", JArr(<<JStr("chara")>>))))),
     WithLayers(Map1("natal", NatalOf("nobody")))}

\* The instances of a request content: one per pair of iteration orders of
\* its two maps.
Instances(contents) ==
    UNION {{r @@ [layer_order |-> lo, override_order |-> oo] :
                lo \in Orders(DOMAIN r.layer_config),
                oo \in Orders(DOMAIN r.settings_override)} : r \in contents}

Content(request) ==
    Request(request.subjects, request.settings, request.layer_config,
            request.settings_override)

\* ------------------------------------------------------- the state machine
PipelineRequests == Instances(PipelineContents)
CacheRequests == Instances(CacheContents)
LayerRequests == Instances(LayerContents)

MergeRequests == Instances(MergeContents)

NoCall ==
    [op |-> "none", request |-> None, result |-> Ok(None), hit |-> FALSE,
     settings |-> None, resolved |-> None, calls |-> 0, aspect_orbs |-> None,
     second_hit |-> None, built_from |-> None, evicted |-> {}]

\* No pool: the specifications of one service instance leave it aside.
NoPool == [services |-> <<>>, counter |-> 0, tasks |-> <<>>]

\* The keys a cache holds.
Keys(c) == {c[i].key : i \in 1..Len(c)}

\* What the model records of a handled call; evicted are the keys that left
\* the cache during it.
Observed(op, request, out) ==
    [op |-> op, request |-> request, result |-> out.result, hit |-> out.hit,
     settings |-> out.settings, resolved |-> out.resolved, calls |-> out.calls,
     aspect_orbs |-> out.aspect_orbs, second_hit |-> out.second_hit,
     built_from |-> out.built_from,
     evicted |-> Keys(cache) \ Keys(out.cache)]

\* The ephemeris files installed: whether they cover Chiron (body 15), and
\* whether the house calculation works with them.
EphemerisInstalls ==
    {[missing |-> {}, houses_fail |-> FALSE], [missing |-> {15}, houses_fail |-> FALSE],
     [missing |-> {}, houses_fail |-> TRUE]}

WheelFiles == {embedded_default_wheel_json, EmptyRingsWheel, MissingRingsWheel}

\* The service's cache after a handler ran, and what the model records of it.
Handle(op, request, out) ==
    /\ cache' = out.cache
    /\ last' = Observed(op, request, out)
    /\ UNCHANGED <<default_wheel_json, ephe, pool>>

\* POST /api/v1/render
RenderEphemeris(requests) ==
    /\ last.op = "none"
    /\ \E request \in requests :
        Handle("render_ephemeris", request, render_ephemeris(request, cache, ephe))

\* POST /api/v1/render/chartspec
RenderChartspec(requests) ==
    /\ last.op = "none"
    /\ \E request \in requests :
        Handle("render_chartspec", request,
               render_chartspec(request, default_wheel_json, cache, ephe))

\* The response leaves the handler and the service lock is released: the
\* service is free for the next request.
Respond ==
    /\ last.op # "none"
    /\ last' = NoCall
    /\ UNCHANGED <<cache, default_wheel_json, ephe, pool>>

\* ChartService::new: an empty cache, the wheel file read once.
Init ==
    /\ cache = <<>>
    /\ default_wheel_json \in WheelFiles
    /\ ephe \in EphemerisInstalls
    /\ last = NoCall
    /\ pool = NoPool

Next ==
    \/ RenderEphemeris(PipelineRequests)
    \/ RenderChartspec(PipelineRequests)
    \/ Respond

Spec == Init /\ [][Next]_vars

InitCache ==
    /\ cache = <<>>
    /\ default_wheel_json = embedded_default_wheel_json
    /\ ephe \in EphemerisInstalls
    /\ last = NoCall
    /\ pool = NoPool

NextCache ==
    \/ RenderEphemeris(CacheRequests)
    \/ RenderChartspec(CacheRequests)
    \/ Respond

SpecCache == InitCache /\ [][NextCache]_vars

InitLayers ==
    /\ cache = <<>>
    /\ default_wheel_json = embedded_default_wheel_json
    /\ ephe \in EphemerisInstalls
    /\ last = NoCall
    /\ pool = NoPool

NextLayers ==
    \/ RenderEphemeris(LayerRequests)
    \/ RenderChartspec(LayerRequests)
    \/ Respond

SpecLayers == InitLayers /\ [][NextLayers]_vars

InitMerge ==
    /\ cache = <<>>
    /\ default_wheel_json = embedded_default_wheel_json
    /\ ephe \in EphemerisInstalls
    /\ last = NoCall
    /\ pool = NoPool

NextMerge ==
    \/ RenderEphemeris(MergeRequests)
    \/ RenderChartspec(MergeRequests)
    \/ Respond

SpecMerge == InitMerge /\ [][NextMerge]_vars

\* The aspect step on its own: two bodies of one layer at chosen longitudes,
\* under a chosen orb table.
OrbValues == {0, 8, 29, 30}
OrbTables ==
    [conjunction : OrbValues, opposition : OrbValues, trine : OrbValues,
     square : OrbValues, sextile : OrbValues]
LongitudesA == {0, 350}
LongitudesB == {5 * k : k \in 0..36}

BodyAt(lon) == [lon |-> lon, lat |-> 0, speed_lon |-> 1, retrograde |-> FALSE]

TwoBodyResponse(settings, lon_a, lon_b) ==
    [layers |-> Map1("natal",
        [id |-> "natal", kind |-> "natal", date_time |-> Instant("1990-01-01T12:00:00Z"),
         location |-> None,
         positions |-> [planets |-> Map2("sun", BodyAt(lon_a), "moon", BodyAt(lon_b)),
                        houses |-> None]]),
     settings |-> settings, vedic |-> None, western |-> None]

ComputeAspects ==
    /\ last.op = "none"
    /\ \E orbs \in OrbTables, lon_a \in LongitudesA, lon_b \in LongitudesB :
        LET settings == [BaseSettings EXCEPT !.orb_settings = orbs]
            response == TwoBodyResponse(settings, lon_a, lon_b)
        IN
        /\ last' = [NoCall EXCEPT !.op = "aspects",
                                  !.request = Some([lon_a |-> lon_a, lon_b |-> lon_b]),
                                  !.settings = Some(settings),
                                  !.aspect_orbs = Some(aspect_orb_settings(settings)),
                                  !.result = Ok(aspects_of_response(response))]
        /\ UNCHANGED <<cache, default_wheel_json, ephe, pool>>

InitAspects ==
    /\ cache = <<>>
    /\ default_wheel_json = embedded_default_wheel_json
    /\ ephe = [missing |-> {}, houses_fail |-> FALSE]
    /\ last = NoCall
    /\ pool = NoPool

NextAspects == ComputeAspects \/ Respond

SpecAspects == InitAspects /\ [][NextAspects]_vars

\* ------------------------------------------------ the chart spec on its own
\* A wheel file whose rings are not in the order of their orderIndex, with a
\* houses ring on the transit layer.
ShuffledWheel ==
    [name |-> "Shuffled Wheel",
     rings |-> Some(<<
        Ring("ring_planets", "planets", 2, 55, 75,
             [kind |-> "layer_planets", layerId |-> "natal"]),
        Ring("ring_houses", "houses", 1, 75, 85,
             [kind |-> "layer_houses", layerId |-> "transit"]),
        Ring("ring_signs", "signs", 0, 85, 100, [kind |-> "static_zodiac"])>>)]

\* Requests with one and two layers whose bodies are in aspect within and
\* across the layers.
WheelContents ==
    {WithSettings([BaseSettings EXCEPT !.include_objects = <<"sun", "mars">>]),
     [BaseRequest EXCEPT
        !.settings = [BaseSettings EXCEPT !.include_objects = <<"sun", "mars">>],
        !.layer_config = Map2("natal", NatalOf("p1"),
                              "transit", TransitAt("2024-06-01T00:00:00Z"))],
     [BaseRequest EXCEPT
        !.settings = [BaseSettings EXCEPT !.include_objects = <<"sun", "mars">>],
        !.layer_config = Map1("transit", TransitAt("2024-06-01T00:00:00Z"))]}

WheelRequests == Instances(WheelContents)

InitWheel ==
    /\ cache = <<>>
    /\ default_wheel_json \in {embedded_default_wheel_json, ShuffledWheel}
    /\ ephe \in EphemerisInstalls
    /\ last = NoCall
    /\ pool = NoPool

NextWheel ==
    \/ RenderChartspec(WheelRequests)
    \/ Respond

SpecWheel == InitWheel /\ [][NextWheel]_vars

\* ---------------------------------------------------------------------------
\* Layer configurations whose optional fields are placed differently
\* ---------------------------------------------------------------------------

\* Requests that differ in their layer ids and in which optional field of a
\* layer carries which string.
KeyContents ==
    {WithLayers(Map2("natal", NatalOf("p1"),
                     "transit", TransitAt("2024-06-01T00:00:00Z"))),
     WithLayers(Map2("natal", LayerConfig("natal", Some("p1"), Some("t2"), None),
                     "transit", TransitAt("2024-06-01T00:00:00Z"))),
     WithLayers(Map2("natal", NatalOf("p1"),
                     "t2", LayerConfig("transit", Some("transit"),
                                       Some("2024-06-01T00:00:00Z"), None)))}

KeyRequests == Instances(KeyContents)

InitKeys ==
    /\ cache = <<>>
    /\ default_wheel_json = embedded_default_wheel_json
    /\ ephe \in EphemerisInstalls
    /\ last = NoCall
    /\ pool = NoPool

NextKeys ==
    \/ RenderEphemeris(KeyRequests)
    \/ RenderChartspec(KeyRequests)
    \/ Respond

SpecKeys == InitKeys /\ [][NextKeys]_vars

\* ------------------------------------------------- the period calculator
\* The calculators of aphrodite_core::vedic, by the algorithm of the
\* specification: exact rational durations, in years from the reference
\* instant.
MaxDepth == 3
Longitudes == 0..359

RECURSIVE GCD(_, _)
GCD(a, b) == IF b = 0 THEN a ELSE GCD(b, a % b)

\* The rational n/d in lowest terms.
Rat(n, d) == [n |-> n \div GCD(n, d), d |-> d \div GCD(n, d)]

RatAddOver(a, b, l) == Rat(a.n * (l \div a.d) + b.n * (l \div b.d), l)

\* a + b, over the least common denominator.
RatAdd(a, b) == RatAddOver(a, b, (a.d \div GCD(a.d, b.d)) * b.d)

RECURSIVE RatSum(_)
RatSum(rs) == IF rs = <<>> THEN Rat(0, 1) ELSE RatAdd(Head(rs), RatSum(Tail(rs)))

\* Period-system descriptors: the lords in canonical order, the duration of
\* each, the cycle length (the sum of the durations) and the number of equal
\* spans of the ecliptic.
PeriodSystems ==
    [three_lords |-> [lords |-> <<"sun", "moon", "mars">>,
                      lord_duration |-> <<1, 2, 3>>, cycle_length |-> 6, spans |-> 3],
     four_lords |-> [lords |-> <<"ketu", "venus", "sun", "moon">>,
                     lord_duration |-> <<2, 1, 4, 3>>, cycle_length |-> 10, spans |-> 8]]

\* The k-th lord of the canonical sequence that starts from lord L.
Rotated(system, L, k) == ((L + k - 2) % Len(system.lords)) + 1

\* A child's duration, floored to whole years.
child_duration_floor(D, system, lord) ==
    Rat((D.n * system.lord_duration[lord]) \div (D.d * system.cycle_length), 1)

\* A child's duration: D * lord_duration(child_lord) / cycle_length.
child_duration(D, system, lord) ==
    Rat(D.n * system.lord_duration[lord], D.d * system.cycle_length)

\* The start of the k-th child: the first starts with the parent, each
\* following one when its predecessor ends.
RECURSIVE child_start(_, _, _, _, _)
child_start(system, L, S, D, k) ==
    IF k = 1 THEN S
    ELSE RatAdd(child_start(system, L, S, D, k - 1),
                child_duration(D, system, Rotated(system, L, k - 1)))

\* A period and, while its depth is below max_depth, its subdivision.
RECURSIVE period(_, _, _, _, _, _)
period(system, L, S, D, depth, max_depth) ==
    [lord |-> system.lords[L], start |-> S, duration |-> D, depth |-> depth,
     children |->
        IF depth >= max_depth THEN <<>>
        ELSE [k \in 1..Len(system.lords) |->
                period(system, Rotated(system, L, k), child_start(system, L, S, D, k),
                       child_duration(D, system, Rotated(system, L, k)),
                       depth + 1, max_depth)]]

\* The span of the reference longitude and the fraction of it passed.
span_index(system, lon) == ((lon * system.spans) \div 360) % system.spans
span_fraction(system, lon) == Rat((lon * system.spans) % 360, 360)

\* The lord-assignment table: spans take the lords in turn.
starting_lord(system, lon) == (span_index(system, lon) % Len(system.lords)) + 1

\* The duration of the k-th top-level period: the first is the part of its
\* lord's duration that is left, (1 - f) * lord_duration.
top_duration(system, lon, k) ==
    IF k = 1
    THEN Rat((360 - ((lon * system.spans) % 360))
                * system.lord_duration[starting_lord(system, lon)], 360)
    ELSE Rat(system.lord_duration[Rotated(system, starting_lord(system, lon), k)], 1)

RECURSIVE top_start(_, _, _)
top_start(system, lon, k) ==
    IF k = 1 THEN Rat(0, 1)
    ELSE RatAdd(top_start(system, lon, k - 1), top_duration(system, lon, k - 1))

\* compute: the top-level periods, one pass through the lords from the
\* starting lord, each subdivided down to max_depth.
compute_periods(lon, system, max_depth) ==
    IF max_depth < 1 THEN Err("Calculation", None, "depth below the minimum")
    ELSE Ok([k \in 1..Len(system.lords) |->
                period(system, Rotated(system, starting_lord(system, lon), k),
                       top_start(system, lon, k), top_duration(system, lon, k),
                       1, max_depth)])

\* A period tree is computed for a natal Moon longitude.
ComputeDasha ==
    /\ last.op = "none"
    /\ \E name \in DOMAIN PeriodSystems, lon \in Longitudes, max_depth \in 0..MaxDepth :
        last' = [NoCall EXCEPT
                    !.op = "compute_dasha",
                    !.request = Some([system |-> name, lon |-> lon,
                                      max_depth |-> max_depth]),
                    !.result = compute_periods(lon, PeriodSystems[name], max_depth)]
    /\ UNCHANGED <<cache, default_wheel_json, ephe, pool>>

InitDasha ==
    /\ cache = <<>>
    /\ default_wheel_json = embedded_default_wheel_json
    /\ ephe = [missing |-> {}, houses_fail |-> FALSE]
    /\ last = NoCall
    /\ pool = NoPool

NextDasha == ComputeDasha \/ Respond

SpecDasha == InitDasha /\ [][NextDasha]_vars

\* ------------------------------------------------------- the service pool
\* Bounds of the pool model: the largest pool (SERVICE_POOL_SIZE) and the
\* number of requests accepted.
PoolSize == 2
MaxTasks == 3
TaskIds == 1..MaxTasks

\* Two request contents with different fingerprints.
PoolContents == {BaseRequest, WithOverride(Map1("houseSystem", JStr("koch")))}
PoolRequests == Instances(PoolContents)

\* ChartService::new behind its tokio Mutex: the cache (behind its own
\* std Mutex), the task that holds the service mutex and the task that holds
\* the cache mutex (0: none).
ChartService_new == [cache |-> <<>>, holder |-> 0, cache_lock |-> 0]

\* ChartServicePool::new: pool_size services, each with a cache of its own.
ChartServicePool_new(pool_size) ==
    [services |-> [i \in 1..pool_size |-> ChartService_new], counter |-> 0,
     tasks |-> <<>>]

\* The width of the counter (usize), scaled down.
CounterBits == 3

\* AtomicUsize::fetch_add(1): the counter after it; it wraps around.
fetch_add(counter) == (counter + 1) % (2 ^ CounterBits)

\* ChartServicePool::get_service: round robin.
get_service(p) == (p.counter % Len(p.services)) + 1

\* A request was answered successfully before.
Succeeded(p, request) ==
    \E i \in 1..Len(p.tasks) :
        /\ p.tasks[i].pc = "done"
        /\ p.tasks[i].request = request
        /\ p.tasks[i].result.ok

\* A handler task as it starts: it has its service and awaits the service
\* mutex.
NewTask(p, request) ==
    [request |-> request, service |-> get_service(p), pc |-> "lock_service",
     settings |-> None, key |-> None, result |-> Ok(None), hit |-> FALSE,
     calls |-> 0, after_success |-> Succeeded(p, request)]

\* The handler is entered for a request.
Accept ==
    /\ pool.services # <<>>
    /\ Len(pool.tasks) < MaxTasks
    /\ \E request \in PoolRequests :
        pool' = [pool EXCEPT !.tasks = Append(@, NewTask(pool, request)),
                             !.counter = fetch_add(@)]
    /\ UNCHANGED <<cache, default_wheel_json, ephe, last>>

\* The task after the settings-override merge of get_positions.
merged_task(task, merged) ==
    IF ~merged.ok
    THEN [task EXCEPT !.pc = "respond", !.result = merged]
    ELSE [task EXCEPT !.pc = "lock_cache_lookup", !.settings = Some(merged.val),
                      !.key = Some(generate_cache_key(task.request, merged.val))]

\* `service.lock().await` returns; get_positions starts, merges the settings
\* and makes the cache key.
LockService(t) ==
    /\ t \in DOMAIN pool.tasks
    /\ pool.tasks[t].pc = "lock_service"
    /\ pool.services[pool.tasks[t].service].holder = 0
    /\ pool' = [pool EXCEPT
            !.services[pool.tasks[t].service].holder = t,
            !.tasks[t] = merged_task(@,
                merge_settings_override(@.request.settings, @.request.settings_override,
                                        @.request.override_order))]
    /\ UNCHANGED <<cache, default_wheel_json, ephe, last>>

\* `self.cache.lock()` before the lookup and before the insert.
LockCache(t) ==
    /\ t \in DOMAIN pool.tasks
    /\ pool.tasks[t].pc \in {"lock_cache_lookup", "lock_cache_insert"}
    /\ pool.services[pool.tasks[t].service].cache_lock = 0
    /\ pool' = [pool EXCEPT
            !.services[pool.tasks[t].service].cache_lock = t,
            !.tasks[t].pc = IF @ = "lock_cache_lookup" THEN "lookup" ELSE "insert"]
    /\ UNCHANGED <<cache, default_wheel_json, ephe, last>>

\* The block of the lookup with a guard that outlives it.
unlock_after_lookup_guard_kept(service, looked) ==
    [service EXCEPT !.cache = looked.cache]

\* The service at the end of the block of the lookup: the guard is dropped.
unlock_after_lookup(service, looked) ==
    [service EXCEPT !.cache = looked.cache, !.cache_lock = 0]

\* The task after the lookup: a hit returns the cached response.
looked_task(task, looked) ==
    IF looked.found
    THEN [task EXCEPT !.pc = "respond", !.result = Ok(looked.value), !.hit = TRUE]
    ELSE [task EXCEPT !.pc = "compute"]

\* cache.get under the cache mutex.
Lookup(t) ==
    /\ t \in DOMAIN pool.tasks
    /\ pool.tasks[t].pc = "lookup"
    /\ pool' = [pool EXCEPT
            !.services[pool.tasks[t].service] =
                unlock_after_lookup(@, cache_get(@.cache, Get(pool.tasks[t].key))),
            !.tasks[t] =
                looked_task(@, cache_get(pool.services[@.service].cache, Get(@.key)))]
    /\ UNCHANGED <<cache, default_wheel_json, ephe, last>>

\* The task after layer resolution and the blocking task.
computed_task(task, computed) ==
    [task EXCEPT !.pc = IF computed.result.ok THEN "lock_cache_insert" ELSE "respond",
                 !.result = computed.result, !.calls = computed.calls]

\* Layer resolution and the spawn_blocking task, awaited; the response is
\* built.
Compute(t) ==
    /\ t \in DOMAIN pool.tasks
    /\ pool.tasks[t].pc = "compute"
    /\ pool' = [pool EXCEPT
            !.tasks[t] = computed_task(@,
                compute_response(@.request, Get(@.settings), ephe))]
    /\ UNCHANGED <<cache, default_wheel_json, ephe, last>>

\* cache.put under the cache mutex; the guard is dropped.
Insert(t) ==
    /\ t \in DOMAIN pool.tasks
    /\ pool.tasks[t].pc = "insert"
    /\ pool' = [pool EXCEPT
            !.services[pool.tasks[t].service] =
                [@ EXCEPT !.cache = cache_put(@, Get(pool.tasks[t].key),
                                              pool.tasks[t].result.val),
                          !.cache_lock = 0],
            !.tasks[t].pc = "respond"]
    /\ UNCHANGED <<cache, default_wheel_json, ephe, last>>

\* The handler returns: the service guard is dropped.
Return(t) ==
    /\ t \in DOMAIN pool.tasks
    /\ pool.tasks[t].pc = "respond"
    /\ pool' = [pool EXCEPT !.services[pool.tasks[t].service].holder = 0,
                            !.tasks[t].pc = "done"]
    /\ UNCHANGED <<cache, default_wheel_json, ephe, last>>

\* create_router: the pool is built once, with the configured size.
InitPool ==
    /\ cache = <<>>
    /\ default_wheel_json = embedded_default_wheel_json
    /\ ephe = [missing |-> {}, houses_fail |-> FALSE]
    /\ last = NoCall
    /\ \E pool_size \in 1..PoolSize : pool = ChartServicePool_new(pool_size)

NextPool ==
    \/ Accept
    \/ \E t \in TaskIds : LockService(t)
    \/ \E t \in TaskIds : LockCache(t)
    \/ \E t \in TaskIds : Lookup(t)
    \/ \E t \in TaskIds : Compute(t)
    \/ \E t \in TaskIds : Insert(t)
    \/ \E t \in TaskIds : Return(t)

SpecPool == InitPool /\ [][NextPool]_vars

\* ------------------------------------ the library's sidereal mode in a pool
\* swisseph::set_sid_mode takes no handle: the mode it sets lives in the
\* library, not in the adapter that set it.  Whether the library keeps it
\* once for the process or once per thread is decided when the library is
\* built; the model leaves both open (tls).  The blocking tasks of
\* get_positions run on the threads of the runtime's blocking pool; no more
\* of them run at a time than there are services.
Threads == 1..PoolSize

\* Tropical and sidereal requests, the sidereal ones with two ayanamsas; one
\* of them has two layers.
SiderealContents ==
    {BaseRequest,
     WithSettings([BaseSettings EXCEPT !.zodiac_type = "sidereal",
                                       !.ayanamsa = Some("lahiri")]),
     [BaseRequest EXCEPT
        !.settings = [BaseSettings EXCEPT !.zodiac_type = "sidereal",
                                          !.ayanamsa = Some("raman")],
        !.layer_config = Map2("natal", NatalOf("p1"),
                              "transit", TransitAt("2024-06-01T00:00:00Z"))]}

SiderealRequests == Instances(SiderealContents)

\* The key under which the library keeps the mode a task's thread sees.
mode_key(p, task) == IF p.tls THEN task.thread ELSE 0

\* The sidereal mode in effect for a task's calls into the library.
mode_in_effect(p, task) == p.sid_mode[mode_key(p, task)]

\* A handler task as it starts; adapter is the temporary adapter's
\* current_sidereal_mode, used the modes in effect at its sidereal
\* calculations.
NewBlockingTask(p, request) ==
    [request |-> request, service |-> get_service(p), pc |-> "lock_service",
     settings |-> None, key |-> None, contexts |-> <<>>, thread |-> 0,
     adapter |-> None, flags |-> None, used |-> <<>>, result |-> Ok(None),
     hit |-> FALSE]

\* The handler is entered for a request.
AcceptSidereal ==
    /\ pool.services # <<>>
    /\ Len(pool.tasks) < MaxTasks
    /\ \E request \in SiderealRequests :
        pool' = [pool EXCEPT !.tasks = Append(@, NewBlockingTask(pool, request)),
                             !.counter = fetch_add(@)]
    /\ UNCHANGED <<cache, default_wheel_json, ephe, last>>

\* The task after the lookup and, on a miss, layer resolution.
resolved_task(task, looked, layer_contexts) ==
    IF looked.found
    THEN [task EXCEPT !.pc = "respond", !.result = Ok(looked.value), !.hit = TRUE]
    ELSE IF ~layer_contexts.ok
    THEN [task EXCEPT !.pc = "respond", !.result = layer_contexts]
    ELSE [task EXCEPT !.pc = "spawn_blocking", !.contexts = layer_contexts.val]

\* The task after the settings-override merge: the key, the lookup, layer
\* resolution.
keyed_task(task, c, settings, cache_key) ==
    resolved_task([task EXCEPT !.settings = Some(settings), !.key = Some(cache_key)],
                  cache_get(c, cache_key),
                  resolve_layer_contexts(task.request.subjects,
                                         task.request.layer_config,
                                         task.request.layer_order, settings))

\* get_positions up to the blocking task.
started_task(task, c, merged) ==
    IF ~merged.ok THEN [task EXCEPT !.pc = "respond", !.result = merged]
    ELSE keyed_task(task, c, merged.val,
                    generate_cache_key(task.request, merged.val))

\* `service.lock().await` returns; get_positions runs up to spawn_blocking.
StartPositions(t) ==
    /\ t \in DOMAIN pool.tasks
    /\ pool.tasks[t].pc = "lock_service"
    /\ pool.services[pool.tasks[t].service].holder = 0
    /\ pool' = [pool EXCEPT
            !.services[pool.tasks[t].service].holder = t,
            !.tasks[t] = started_task(@, pool.services[@.service].cache,
                merge_settings_override(@.request.settings, @.request.settings_override,
                                        @.request.override_order))]
    /\ UNCHANGED <<cache, default_wheel_json, ephe, last>>

\* The threads on which a blocking task is running.
BusyThreads(p) ==
    {p.tasks[i].thread : i \in {j \in DOMAIN p.tasks :
                                    p.tasks[j].pc \in {"configure_flags", "calc"}}}

\* spawn_blocking: the closure starts on a free thread of the blocking pool
\* and makes its temporary adapter.
SpawnBlocking(t) ==
    /\ t \in DOMAIN pool.tasks
    /\ pool.tasks[t].pc = "spawn_blocking"
    /\ \E thread \in Threads \ BusyThreads(pool) :
        pool' = [pool EXCEPT !.tasks[t] = [@ EXCEPT !.pc = "configure_flags",
                                                    !.thread = thread,
                                                    !.adapter = None]]
    /\ UNCHANGED <<cache, default_wheel_json, ephe, last>>

\* ensure_sidereal_mode: set_sid_mode unless the adapter remembers the mode.
ensure_sidereal_mode(p, t, mode) ==
    IF p.tasks[t].adapter = Some(mode) THEN p
    ELSE [p EXCEPT !.sid_mode[mode_key(p, p.tasks[t])] = mode,
                   !.tasks[t].adapter = Some(mode)]

\* The pool after configure_flags of task t gave flags.
flags_configured(p, t, flags) ==
    IF ~flags.ok
    THEN [p EXCEPT !.tasks[t] = [@ EXCEPT !.pc = "join", !.result = flags]]
    ELSE [(IF flags.val.sidereal THEN ensure_sidereal_mode(p, t, flags.val.mode) ELSE p)
            EXCEPT !.tasks[t].pc = "calc", !.tasks[t].flags = Some(flags.val)]

\* calc_positions of the next layer up to its first calculation:
\* configure_flags, which sets the library's sidereal mode.
ConfigureFlags(t) ==
    /\ t \in DOMAIN pool.tasks
    /\ pool.tasks[t].pc = "configure_flags"
    /\ pool' = flags_configured(pool, t,
                    configure_flags(pool.tasks[t].contexts[1].settings))
    /\ UNCHANGED <<cache, default_wheel_json, ephe, last>>

\* The task after the calculations of a layer, made under the mode in effect.
layer_done(task, mode) ==
    [task EXCEPT
        !.used = IF Get(task.flags).sidereal THEN Append(@, mode) ELSE @,
        !.contexts = Tail(@),
        !.pc = IF Len(task.contexts) > 1 THEN "configure_flags" ELSE "join"]

\* The calc_ut and houses_ex2 calls of the layer.
CalcLayer(t) ==
    /\ t \in DOMAIN pool.tasks
    /\ pool.tasks[t].pc = "calc"
    /\ pool' = [pool EXCEPT
            !.tasks[t] = layer_done(@, mode_in_effect(pool, @))]
    /\ UNCHANGED <<cache, default_wheel_json, ephe, last>>

\* What the blocking task and the rest of get_positions give: the error of
\* the blocking task, or the response built.
joined(task, computed) ==
    IF task.result.ok THEN computed ELSE [computed EXCEPT !.result = task.result]

\* The blocking task is awaited, the response built and cached.
JoinBlocking(t) ==
    /\ t \in DOMAIN pool.tasks
    /\ pool.tasks[t].pc = "join"
    /\ pool' = [pool EXCEPT
            !.tasks[t] = [@ EXCEPT
                !.pc = "respond",
                !.result = joined(pool.tasks[t],
                                  compute_response(pool.tasks[t].request,
                                                   Get(pool.tasks[t].settings),
                                                   ephe)).result],
            !.services[pool.tasks[t].service].cache =
                after_miss(@, Get(pool.tasks[t].key), Get(pool.tasks[t].settings),
                    joined(pool.tasks[t],
                           compute_response(pool.tasks[t].request,
                                            Get(pool.tasks[t].settings), ephe))).cache]
    /\ UNCHANGED <<cache, default_wheel_json, ephe, last>>

\* create_router with a library of either build; no mode was set yet.
InitSidereal ==
    /\ cache = <<>>
    /\ default_wheel_json = embedded_default_wheel_json
    /\ ephe = [missing |-> {}, houses_fail |-> FALSE]
    /\ last = NoCall
    /\ \E pool_size \in 1..PoolSize, tls \in BOOLEAN :
        pool = ChartServicePool_new(pool_size)
               @@ [tls |-> tls, sid_mode |-> [k \in {0} \cup Threads |-> "unset"]]

NextSidereal ==
    \/ AcceptSidereal
    \/ \E t \in TaskIds : StartPositions(t)
    \/ \E t \in TaskIds : SpawnBlocking(t)
    \/ \E t \in TaskIds : ConfigureFlags(t)
    \/ \E t \in TaskIds : CalcLayer(t)
    \/ \E t \in TaskIds : JoinBlocking(t)
    \/ \E t \in TaskIds : Return(t)

SpecSidereal == InitSidereal /\ [][NextSidereal]_vars

\* ----------------------------------------------------- the pool's selection
\* Bounds: the largest pool and the number of get_service calls followed.
MaxServices == 3
MaxCalls == 12

\* Handlers that ask the pool for a service and later let go of it.
IdleHandler == [pc |-> "idle", service |-> 0]

\* The pool after a get_service call of handler t: the counter was read and
\* incremented in one atomic step.  picks lists the indices returned, in the
\* order of the counter.
service_taken(p, t) ==
    [p EXCEPT !.counter = fetch_add(@),
              !.picks = Append(@, get_service(p)),
              !.tasks[t] = [pc |-> "has_service", service |-> get_service(p)]]

\* ChartServicePool::get_service, called at the start of a handler.
GetService(t) ==
    /\ pool.tasks[t].pc = "idle"
    /\ Len(pool.picks) < MaxCalls
    /\ pool' = service_taken(pool, t)
    /\ UNCHANGED <<cache, default_wheel_json, ephe, last>>

\* The handler ends and drops its Arc of the service.
DropService(t) ==
    /\ pool.tasks[t].pc = "has_service"
    /\ pool' = [pool EXCEPT !.tasks[t] = IdleHandler]
    /\ UNCHANGED <<cache, default_wheel_json, ephe, last>>

\* ChartServicePool::new with a pool size of at least one; no call yet.
InitRoundRobin ==
    /\ cache = <<>>
    /\ default_wheel_json = embedded_default_wheel_json
    /\ ephe = [missing |-> {}, houses_fail |-> FALSE]
    /\ last = NoCall
    /\ \E pool_size \in 1..MaxServices :
        pool = [ChartServicePool_new(pool_size)
                    EXCEPT !.tasks = [t \in TaskIds |-> IdleHandler]]
               @@ [picks |-> <<>>]

NextRoundRobin ==
    \/ \E t \in TaskIds : GetService(t)
    \/ \E t \in TaskIds : DropService(t)

SpecRoundRobin == InitRoundRobin /\ [][NextRoundRobin]_vars

\* ================================================================ claims
Handled == last.op \in {"render_ephemeris", "render_chartspec"}

\* The response a cache miss computes for a request: get_positions on an
\* empty cache.
MissResult(request) == get_positions(request, <<>>, ephe).result

\* C1: no request is answered from the cache with a response that was cached
\* for a request with different effective settings: on a cache hit of
\* POST /api/v1/render the settings of the response are the request's own
\* merged settings.
C1_HitHasOwnSettings ==
    (last.op = "render_ephemeris" /\ last.hit) =>
        last.result.val.settings = Get(last.settings)

\* C2: for the content of the handled request, generate_cache_key gives the
\* same key under every iteration order of layer_config and of
\* settings_override.
C2_KeyOrderIndependent ==
    (Handled /\ IsSome(last.settings)) =>
        \A lo \in Orders(DOMAIN last.request.layer_config),
           oo \in Orders(DOMAIN last.request.settings_override) :
            generate_cache_key([last.request EXCEPT !.layer_order = lo,
                                                    !.override_order = oo],
                               Get(last.settings))
            = generate_cache_key(last.request, Get(last.settings))

\* C3: the response returned on a cache hit equals the response a cache miss
\* computes for the same request.
C3_HitEqualsMiss ==
    (last.op = "render_ephemeris" /\ last.hit) =>
        last.result = MissResult(last.request)

\* C4: a chartspec request under a wheel definition with an empty or missing
\* ring list ends in a Validation error and makes no gateway call.
C4_EmptyWheelFailsFast ==
    (last.op = "render_chartspec"
     /\ (~IsSome(default_wheel_json.rings) \/ default_wheel_json.rings = Some(<<>>))) =>
        /\ ~last.result.ok
        /\ last.result.err.kind = "Validation"
        /\ last.calls = 0

\* C5: a render request that breaks a request-validation rule is answered
\* with VALIDATION_ERROR and makes no gateway call.
C5_InvalidRequestFailsFast ==
    (Handled /\ ~validate_request(last.request).ok) =>
        /\ ~last.result.ok
        /\ error_code(last.result.err.kind) = "VALIDATION_ERROR"
        /\ last.calls = 0

\* No two aspects of one pair of bodies have different types.
OneTypePerPair(aspects) ==
    \A a1, a2 \in aspects : a1.pair = a2.pair => a1.type = a2.type

\* The orbs of any two aspect types sum to less than the distance of their
\* canonical angles.
NarrowOrbs(orb_settings) ==
    \A t1, t2 \in AspectNames :
        t1 # t2 => orb_settings[t1] + orb_settings[t2]
                    < Abs(CanonicalAngle[t1] - CanonicalAngle[t2])

OrbsInRange(orb_settings) ==
    \A t \in AspectNames : orb_settings[t] >= MIN_ORB /\ orb_settings[t] <= MAX_ORB

C7_AspectOrbsInRange ==
    (Handled /\ IsSome(last.aspect_orbs)) => OrbsInRange(Get(last.aspect_orbs))

\* What a layer needs in order to resolve, by its kind.
WellFormedLayer(request, l) ==
    LET config == request.layer_config[l] IN
    CASE config.kind = "natal" ->
            /\ IsSome(config.subject_id)
            /\ \E i \in 1..Len(request.subjects) :
                    request.subjects[i].id = Get(config.subject_id)
            /\ \A i \in 1..Len(request.subjects) :
                    request.subjects[i].id = Get(config.subject_id) =>
                        /\ IsSome(request.subjects[i].birth_date_time)
                        /\ Parses(Get(request.subjects[i].birth_date_time))
      [] config.kind \in {"transit", "progressed"} ->
            IsSome(config.explicit_date_time) /\ Parses(Get(config.explicit_date_time))
      [] OTHER -> FALSE

ContextOf(contexts, l) ==
    contexts[CHOOSE i \in 1..Len(contexts) : contexts[i].layer_id = l]

HasContext(contexts, l) == \E i \in 1..Len(contexts) : contexts[i].layer_id = l

\* C8: a transit or progressed layer with a parseable explicit instant
\* resolves to a context with that instant (when the request's other layers
\* resolve too), and without an explicit instant resolution fails with a
\* validation error.
C8_ExplicitInstantLayers ==
    IsSome(last.resolved) =>
        LET r == Get(last.resolved)
            request == last.request
        IN \A l \in DOMAIN request.layer_config :
            request.layer_config[l].kind \in {"transit", "progressed"} =>
                /\ ~IsSome(request.layer_config[l].explicit_date_time) =>
                        (~r.ok /\ r.err.kind = "Validation")
                /\ (\A k \in DOMAIN request.layer_config : WellFormedLayer(request, k)) =>
                        /\ r.ok
                        /\ HasContext(r.val, l)
                        /\ ContextOf(r.val, l).datetime
                            = Instant(Get(request.layer_config[l].explicit_date_time))

\* A natal layer that names no subject, an unknown subject, or a subject
\* without a birth instant.
BadNatal(request, l) ==
    LET config == request.layer_config[l] IN
    /\ config.kind = "natal"
    /\ \/ ~IsSome(config.subject_id)
       \/ \A i \in 1..Len(request.subjects) :
            request.subjects[i].id = Get(config.subject_id) =>
                ~IsSome(request.subjects[i].birth_date_time)

\* The layers iterated before l.
Before(request, l) ==
    {request.layer_order[j] :
        j \in 1..((CHOOSE i \in 1..Len(request.layer_order) :
                        request.layer_order[i] = l) - 1)}

C10_NoPartialResults ==
    (last.op = "render_ephemeris" /\ last.result.ok) =>
        \A l \in DOMAIN last.result.val.layers :
            \A i \in 1..Len(Get(last.settings).include_objects) :
                to_lowercase(Get(last.settings).include_objects[i])
                    \in DOMAIN last.result.val.layers[l].positions.planets

\* The override keys merge_settings_override recognizes, with the settings
\* field each one names.
FieldOfKey ==
    [zodiacType |-> "zodiac_type", houseSystem |-> "house_system",
     ayanamsa |-> "ayanamsa", orbSettings |-> "orb_settings",
     includeObjects |-> "include_objects", vedicConfig |-> "vedic_config"]

RecognizedKeys == DOMAIN FieldOfKey

\* The value of a recognized override key has a type the key does not admit,
\* at the top level or inside (an orb that is no number, an included object
\* that is no string).
WrongType(key, value) ==
    CASE key \in {"zodiacType", "houseSystem"} -> value.t # "str"
      [] key = "ayanamsa" -> value.t \notin {"str", "null"}
      [] key = "orbSettings" ->
            \/ value.t # "obj"
            \/ \E a \in AspectNames \cap DOMAIN value.o : value.o[a].t # "num"
      [] key = "includeObjects" ->
            \/ value.t # "arr"
            \/ \E i \in 1..Len(value.a) : value.a[i].t # "str"
      [] key = "vedicConfig" ->
            \/ value.t \notin {"obj", "null"}
            \/ value.t = "obj" /\ ~vedic_config_from_value(value.o).ok
      [] OTHER -> FALSE

\* C11: a settings_override entry under a recognized key whose value has the
\* wrong type (a non-numeric orb and a non-string included object too) makes
\* the request fail with a validation error.
C11_WrongTypeRejected ==
    (Handled /\ \E k \in DOMAIN last.request.settings_override :
                    WrongType(k, last.request.settings_override[k])) =>
        /\ ~last.result.ok
        /\ last.result.err.kind = "Validation"
        /\ ~IsSome(last.settings)

\* C12: when the merge of the handled request succeeds, every settings field
\* whose key is not in the override map has its base value, and so has every
\* orb whose aspect the orbSettings object does not list; an override map of
\* unknown keys only merges without error into the base settings.
C12_OverrideFrame ==
    Handled =>
        LET base == last.request.settings
            ov == last.request.settings_override
        IN
        /\ IsSome(last.settings) =>
            /\ \A k \in RecognizedKeys \ DOMAIN ov :
                    Get(last.settings)[FieldOfKey[k]] = base[FieldOfKey[k]]
            /\ \A a \in AspectNames :
                    ("orbSettings" \in DOMAIN ov /\ a \notin DOMAIN ov["orbSettings"].o) =>
                        Get(last.settings).orb_settings[a] = base.orb_settings[a]
        /\ (DOMAIN ov \cap RecognizedKeys = {}) => last.settings = Some(base)

\* A merge that changed an orb and kept a base orb that is not the default,
\* and a merge of an unknown key.
C12_Witness ==
    /\ Handled
    /\ IsSome(last.settings)
    /\ \/ /\ "orbSettings" \in DOMAIN last.request.settings_override
          /\ Get(last.settings).orb_settings # last.request.settings.orb_settings
          /\ Get(last.settings).orb_settings.conjunction
                # DefaultOrbSettings.conjunction
          /\ Get(last.settings).orb_settings.conjunction
                = last.request.settings.orb_settings.conjunction
       \/ /\ DOMAIN last.request.settings_override # {}
          /\ DOMAIN last.request.settings_override \cap RecognizedKeys = {}

\* The fingerprint of the request a step handled.
HandledKey == generate_cache_key(last'.request, Get(last'.settings))

\* The entries of cache c other than that of key, in order.
Others(c, key) == SelectSeq(c, LAMBDA entry : entry.key # key)

\* C13: the cache never holds more than the capacity fixed at construction;
\* a key leaves the cache only in a step that inserts a new key into a full
\* cache, and the key that leaves is then the least recently used one (the
\* entry read or written in a step becomes the most recently used, the order
\* of the others is kept).
C13_BoundedLru ==
    [][/\ Len(cache') <= cache_capacity
       /\ Keys(cache) \ Keys(cache') # {} =>
            /\ Len(cache) = cache_capacity
            /\ Keys(cache') \ Keys(cache) # {}
            /\ Keys(cache) \ Keys(cache') = {cache[Len(cache)].key}
       /\ cache' # cache =>
            /\ cache'[1].key = HandledKey
            /\ Others(cache', HandledKey)
                = SubSeq(Others(cache, HandledKey), 1, Len(cache') - 1)
      ]_vars

\* A handled request whose insert pushed the least recently used entry out
\* of a full cache.
C13_Witness ==
    /\ Handled
    /\ last.evicted # {}
    /\ Len(cache) = cache_capacity
    /\ ~last.hit

\* C14: the cache mutex of a service is held only by a task that is at the
\* lookup or at the final insert; a task whose gateway computation is
\* running (or about to run) after a miss holds no cache mutex, and nobody
\* holds the cache mutex of its service.
C14_CacheLockOnlyAroundLookupAndInsert ==
    /\ \A t \in DOMAIN pool.tasks :
        pool.tasks[t].pc = "compute" =>
            pool.services[pool.tasks[t].service].cache_lock = 0
    /\ \A s \in DOMAIN pool.services :
        pool.services[s].cache_lock # 0 =>
            /\ pool.services[s].cache_lock \in DOMAIN pool.tasks
            /\ pool.tasks[pool.services[s].cache_lock].service = s
            /\ pool.tasks[pool.services[s].cache_lock].pc \in {"lookup", "insert"}

C14_Witness ==
    \E t \in DOMAIN pool.tasks :
        /\ pool.tasks[t].pc = "compute"
        /\ ~pool.tasks[t].hit
        /\ IsSome(pool.tasks[t].key)
        /\ pool.services[pool.tasks[t].service].holder = t

\* The fingerprint get_positions makes for the request of a task, whether or
\* not the task has reached it.
FingerprintOf(task) ==
    generate_cache_key(task.request,
        merge_settings_override(task.request.settings, task.request.settings_override,
                                task.request.override_order).val)

\* Task t is in flight.
InFlight(t) == pool.tasks[t].pc # "done"

\* Task t awaits the service mutex that task u holds.
WaitsFor(t, u) ==
    /\ pool.tasks[t].pc = "lock_service"
    /\ pool.tasks[t].service = pool.tasks[u].service
    /\ pool.services[pool.tasks[u].service].holder = u

C16_ComputeBlocksNoOther ==
    \A t, u \in DOMAIN pool.tasks :
        (/\ t # u
         /\ pool.tasks[u].pc = "compute"
         /\ \/ FingerprintOf(pool.tasks[t]) # FingerprintOf(pool.tasks[u])
            \/ FingerprintOf(pool.tasks[t]) \in Keys(pool.services[pool.tasks[t].service].cache)) =>
            ~WaitsFor(t, u)

\* C17: a request identical to one that was answered successfully before it
\* arrived is answered from the cache without a gateway call and with the
\* same body, whichever service of the pool handles it.
C17_SecondIdenticalFromCache ==
    \A t \in DOMAIN pool.tasks :
        (pool.tasks[t].pc = "done" /\ pool.tasks[t].after_success) =>
            /\ pool.tasks[t].hit
            /\ pool.tasks[t].calls = 0
            /\ \A u \in DOMAIN pool.tasks :
                (/\ u < t
                 /\ pool.tasks[u].pc = "done"
                 /\ pool.tasks[u].request = pool.tasks[t].request) =>
                    pool.tasks[u].result = pool.tasks[t].result

\* C18: a handled request whose effective settings are sidereal and carry no
\* ayanamsa, or an ayanamsa that cannot be resolved, fails; no response is
\* computed for it.
C18_SiderealNeedsAyanamsa ==
    (/\ Handled
     /\ IsSome(last.settings)
     /\ Get(last.settings).zodiac_type = "sidereal"
     /\ \/ ~IsSome(Get(last.settings).ayanamsa)
        \/ ~resolve_ayanamsa(Get(last.settings).ayanamsa).ok) =>
        ~last.result.ok

DepthNames == {"mahadasha", "antardasha", "pratyantardasha"}

\* The handled request asks for dashas, by its effective settings, and the
\* service resolved its layers.
DashasRequested ==
    /\ Handled
    /\ IsSome(last.settings)
    /\ IsSome(last.resolved)
    /\ IsSome(Get(last.settings).vedic_config)
    /\ Get(Get(last.settings).vedic_config).include_dashas
    /\ Get(Get(last.settings).vedic_config).dasha_systems # <<>>

\* C19: when dashas are requested, an unrecognized period-system name and an
\* unrecognized depth each make the request fail with a Calculation error.
C19_DashaErrorsNotSilent ==
    (/\ DashasRequested
     /\ \/ Get(Get(last.settings).vedic_config).dasha_systems[1] \notin DashaSystems
        \/ Get(Get(last.settings).vedic_config).dashas_depth \notin DepthNames) =>
        /\ ~last.result.ok
        /\ last.result.err.kind = "Calculation"

ChildDurations(p) == [k \in 1..Len(p.children) |-> p.children[k].duration]

\* Each sibling after the first starts exactly when its predecessor ends.
Contiguous(siblings) ==
    \A k \in 2..Len(siblings) :
        siblings[k].start = RatAdd(siblings[k - 1].start, siblings[k - 1].duration)

\* The tree of p is subdivided down to max_depth and, at every period with
\* children, the children's durations sum to the period's duration, the
\* first child starts with the period and the children are contiguous.
RECURSIVE Conserved(_, _)
Conserved(p, max_depth) ==
    IF p.children = <<>> THEN p.depth = max_depth
    ELSE /\ p.depth < max_depth
         /\ RatSum(ChildDurations(p)) = p.duration
         /\ p.children[1].start = p.start
         /\ Contiguous(p.children)
         /\ \A k \in 1..Len(p.children) :
                /\ p.children[k].depth = p.depth + 1
                /\ Conserved(p.children[k], max_depth)

DashaComputed == last.op = "compute_dasha" /\ last.result.ok

\* C20: in every computed period tree, at every depth up to max_depth, the
\* children's durations sum exactly to the parent's duration, the first child
\* starts at the parent's start and every following sibling starts exactly
\* when its predecessor ends.
C20_PeriodTreeConservation ==
    DashaComputed =>
        /\ Contiguous(last.result.val)
        /\ \A k \in 1..Len(last.result.val) :
                Conserved(last.result.val[k], Get(last.request).max_depth)

C20_Witness ==
    /\ DashaComputed
    /\ Get(last.request).max_depth >= 2
    /\ last.result.val[1].duration.d > 1
    /\ last.result.val[1].children # <<>>
    /\ last.result.val[1].children[1].lord = last.result.val[1].lord
    /\ last.result.val[1].children[2].start.n > 0

\* min(|a - b|, 360 - |a - b|)
MinArc(a, b) == IF Abs(a - b) <= 360 - Abs(a - b) THEN Abs(a - b) ELSE 360 - Abs(a - b)

AspectsComputed == last.op = "aspects"

KnownRingTypes == {"signs", "houses", "planets"}

\* The rings of the service's wheel file.
WheelRings == IF IsSome(default_wheel_json.rings) THEN Get(default_wheel_json.rings) ELSE <<>>

\* C22: a chart spec is produced only for a wheel in which every ring has a
\* known type and every data source that names a layer names one of the
\* request's layers; any other wheel ends in a validation error.  (Requests
\* without any layer are left to C5.)
C22_WheelSourcesValidated ==
    (/\ last.op = "render_chartspec"
     /\ last.result.ok
     /\ DOMAIN last.request.layer_config # {}) =>
        \A i \in 1..Len(WheelRings) :
            /\ WheelRings[i].type \in KnownRingTypes
            /\ "layerId" \in DOMAIN WheelRings[i].dataSource =>
                    WheelRings[i].dataSource.layerId \in DOMAIN last.request.layer_config

\* The location the spec gives layer l of a request: the config's, else the
\* referenced subject's, else none.
LocationByPrecedence(request, l) ==
    IF IsSome(request.layer_config[l].location) THEN request.layer_config[l].location
    ELSE IF /\ IsSome(request.layer_config[l].subject_id)
            /\ \E i \in 1..Len(request.subjects) :
                    request.subjects[i].id = Get(request.layer_config[l].subject_id)
    THEN request.subjects[
            CHOOSE i \in 1..Len(request.subjects) :
                /\ request.subjects[i].id = Get(request.layer_config[l].subject_id)
                /\ \A j \in 1..(i - 1) :
                    request.subjects[j].id # Get(request.layer_config[l].subject_id)
         ].location
    ELSE None

\* The ephemeris response of a handled request that succeeded.
EphemerisOf(call) ==
    IF call.op = "render_chartspec" THEN call.result.val.ephemeris ELSE call.result.val

LayersResolved == Handled /\ IsSome(last.resolved) /\ Get(last.resolved).ok

\* C23: every resolved layer has the location of its config when that is
\* present, otherwise the location of the subject it references when that
\* subject has one, otherwise none; and in a computed response a layer has
\* houses exactly when its resolved location is present.
C23_LocationPrecedence ==
    LayersResolved =>
        \A l \in DOMAIN last.request.layer_config :
            /\ HasContext(Get(last.resolved).val, l)
            /\ ContextOf(Get(last.resolved).val, l).location
                    = LocationByPrecedence(last.request, l)
            /\ (last.result.ok /\ ~last.hit) =>
                    /\ l \in DOMAIN EphemerisOf(last).layers
                    /\ EphemerisOf(last).layers[l].location
                            = LocationByPrecedence(last.request, l)
                    /\ IsSome(EphemerisOf(last).layers[l].positions.houses)
                            <=> IsSome(LocationByPrecedence(last.request, l))

\* A layer whose config has a location of its own and whose subject has
\* another one was computed, with houses.
C23_Witness ==
    /\ LayersResolved
    /\ last.result.ok
    /\ ~last.hit
    /\ \E l \in DOMAIN last.request.layer_config :
        /\ IsSome(last.request.layer_config[l].location)
        /\ IsSome(last.request.layer_config[l].subject_id)
        /\ IsSome(FindSubject(last.request.subjects,
                              Get(last.request.layer_config[l].subject_id)))
        /\ Get(FindSubject(last.request.subjects,
                           Get(last.request.layer_config[l].subject_id))).location
                # last.request.layer_config[l].location
        /\ IsSome(EphemerisOf(last).layers[l].positions.houses)

\* A response was computed, not taken from the cache.
ComputedResponse == Handled /\ last.result.ok /\ ~last.hit /\ IsSome(last.settings)

\* What the ephemeris gives for the north node at the instant of a layer of
\* the response, under the flags of the handled request's settings.
NorthNodeAt(layer) ==
    calc_planet_position("north_node", datetime_to_julian_day(layer.date_time),
                         configure_flags(EphemerisSettingsOf(Get(last.settings))).val,
                         ephe)

\* C24: south_node is in a layer's positions only when it was requested and
\* the north node could be calculated; its longitude is then (north node
\* longitude + 180) mod 360 at the layer's instant, within [0, 360); it is no
\* body the ephemeris is queried for.
C24_SouthNodeDerived ==
    /\ "south_node" \notin DOMAIN PLANET_IDS
    /\ ComputedResponse =>
        \A l \in DOMAIN EphemerisOf(last).layers :
            "south_node" \in DOMAIN EphemerisOf(last).layers[l].positions.planets =>
                /\ \E i \in 1..Len(Get(last.settings).include_objects) :
                        to_lowercase(Get(last.settings).include_objects[i]) = "south_node"
                /\ NorthNodeAt(EphemerisOf(last).layers[l]).ok
                /\ EphemerisOf(last).layers[l].positions.planets["south_node"].lon
                        = (NorthNodeAt(EphemerisOf(last).layers[l]).val.lon + 180) % 360
                /\ EphemerisOf(last).layers[l].positions.planets["south_node"].lon
                        \in 0..359
                /\ "north_node" \in DOMAIN EphemerisOf(last).layers[l].positions.planets =>
                        EphemerisOf(last).layers[l].positions.planets["south_node"].lon
                        = (EphemerisOf(last).layers[l].positions.planets["north_node"].lon
                           + 180) % 360

\* A south node was derived from a north node in the second half of the
\* circle, in a response that does not hold the north node itself.
C24_Witness ==
    /\ ComputedResponse
    /\ \E l \in DOMAIN EphemerisOf(last).layers :
        /\ "south_node" \in DOMAIN EphemerisOf(last).layers[l].positions.planets
        /\ "north_node" \notin DOMAIN EphemerisOf(last).layers[l].positions.planets
        /\ NorthNodeAt(EphemerisOf(last).layers[l]).val.lon >= 180

ChartspecProduced == last.op = "render_chartspec" /\ last.result.ok

\* The rings of the wheel file that the assembler does not skip for the
\* layers of a response.
RingsExpected(ephemeris) ==
    {WheelRings[i].slug : i \in {i \in 1..Len(WheelRings) :
        ~(/\ WheelRings[i].type = "houses"
          /\ \/ WheelRings[i].dataSource.layerId \notin DOMAIN ephemeris.layers
             \/ ~IsSome(ephemeris.layers[WheelRings[i].dataSource.layerId]
                            .positions.houses))}}

\* The bodies the wheel file gives a glyph: the included objects of the
\* layers its planets rings name.
GlyphsExpected(ephemeris) ==
    UNION {{<<WheelRings[i].dataSource.layerId, o>> :
                o \in DOMAIN ephemeris.layers[WheelRings[i].dataSource.layerId]
                                .positions.planets
                     \cap Range(ephemeris.settings.include_objects)} :
            i \in {i \in 1..Len(WheelRings) :
                        /\ WheelRings[i].type = "planets"
                        /\ WheelRings[i].dataSource.layerId \in DOMAIN ephemeris.layers}}

C26_LayersMirrorConfig ==
    (Handled /\ last.result.ok) =>
        /\ DOMAIN EphemerisOf(last).layers = DOMAIN last.request.layer_config
        /\ \A l \in DOMAIN EphemerisOf(last).layers :
            /\ EphemerisOf(last).layers[l].id = l
            /\ EphemerisOf(last).layers[l].kind = last.request.layer_config[l].kind

\* C27: when get_positions returns an error, whatever its cause (override
\* merge, layer resolution, gateway, vedic calculation), the cache after the
\* call is the cache before it.  With a wheel file that loads, an error of the
\* chartspec handler is an error of its first get_positions.
GetPositionsFailed ==
    /\ Handled
    /\ ~last.result.ok
    /\ load_wheel_definition_from_json(default_wheel_json).ok

C27_ErrorsNeverCached ==
    [][(last.op = "none" /\ GetPositionsFailed') => cache' = cache]_vars

\* A request fails on the gateway, after its override merge and its layer
\* resolution succeeded, on a service whose cache already holds a response.
C27_Witness ==
    /\ GetPositionsFailed
    /\ cache # <<>>
    /\ IsSome(last.settings)
    /\ IsSome(last.resolved) /\ Get(last.resolved).ok
    /\ last.calls > 0
    /\ generate_cache_key(last.request, Get(last.settings)) \notin Keys(cache)

\* C28: in a pool, every sidereal calculation of a request is made under the
\* sidereal mode of the request's own ayanamsa, and while a blocking task
\* runs, the mode its adapter remembers is the mode in effect for it.
OwnMode(task) == configure_flags(EphemerisSettingsOf(Get(task.settings))).val.mode

C28_AyanamsaIsolation ==
    \A t \in DOMAIN pool.tasks :
        /\ \A i \in 1..Len(pool.tasks[t].used) :
                pool.tasks[t].used[i] = OwnMode(pool.tasks[t])
        /\ (pool.tasks[t].pc \in {"configure_flags", "calc"}
                /\ IsSome(pool.tasks[t].adapter))
            => mode_in_effect(pool, pool.tasks[t]) = Get(pool.tasks[t].adapter)

\* C29: get_service returns a service of the pool; the k-th call, counted
\* from 0 in the order of the counter, returns service k mod n; and any n
\* consecutive calls return n different services, across a wrap of the
\* counter too.
C29_RoundRobin ==
    /\ \A k \in 1..Len(pool.picks) :
        /\ pool.picks[k] \in DOMAIN pool.services
        /\ pool.picks[k] = ((k - 1) % Len(pool.services)) + 1
    /\ \A k \in 1..(Len(pool.picks) - Len(pool.services) + 1) :
        {pool.picks[j] : j \in k..(k + Len(pool.services) - 1)} = DOMAIN pool.services

\* C30: a chartspec request that is answered runs the gateway task at most
\* once (at most one calculation per layer), its second get_positions is a
\* cache hit, and the ephemeris returned is the response the spec was built
\* from.
ChartspecAnswered ==
    /\ last.op = "render_chartspec"
    /\ last.result.ok

C30_OneComputationPerChartspec ==
    ChartspecAnswered =>
        /\ last.second_hit = Some(TRUE)
        /\ last.calls <= Cardinality(DOMAIN last.request.layer_config)
        /\ last.hit => last.calls = 0
        /\ last.result.val.ephemeris = Get(last.built_from)

\* A chartspec request whose first get_positions missed a full cache and
\* computed, evicting an entry.
C30_Witness ==
    /\ ChartspecAnswered
    /\ ~last.hit
    /\ last.calls > 0
    /\ last.evicted # {}
    /\ last.second_hit = Some(TRUE)
====
